---- MODULE Spec2Model ----
(***************************************************************************)
(* Verification model of the AMG MCP HTTP proxy                            *)
(* (demos/GrocerySreDemo/infrastructure/amg_mcp_http_proxy_server.py),     *)
(* with the reader of infrastructure/mcp_query_runner.py and the token     *)
(* cache of src/prometheus_remote_write_proxy/server.py.                   *)
(*                                                                         *)
(* The specifications of the module:                                       *)
(*   SpecFrame  - McpStdioClient._send / _read_message at byte level       *)
(*   SpecPeer   - the same reader, the peer framing with either separator  *)
(*   SpecBoundary - the reader under the request lock of the cached        *)
(*                session, with the handlers that reset                    *)
(*   SpecReaders - the reader of mcp_query_runner next to the proxy's, on  *)
(*                one byte stream                                          *)
(*   Spec       - the shared backend session: _get_backend, _reset_backend,*)
(*                AmgMcpBackend._call, McpStdioClient.request, the child   *)
(*                process, _backend_tool_call_safe and the warm-up, per    *)
(*                thread                                                   *)
(*   SpecStale  - Spec, begun with a caller bound to a replaced session    *)
(*   SpecRouter - the tool functions' fallback chains, one tool call per   *)
(*                step, with what the call leaves of the shared session    *)
(*   SpecFilter - the argument filter of tools/call                        *)
(*   SpecCache  - the datasource-list cache and its time to live           *)
(*   SpecList   - amgmcp_datasource_list against that cache and the clock  *)
(*   SpecLocks  - the with-statements of the three locks, per thread       *)
(*   SpecToken  - the remote-write proxy's token cache under concurrent    *)
(*                request handlers                                         *)
(*   SpecSend   - one request() against the clock and the child's stdin    *)
(*                pipe; FairSpecSend adds the scheduling of the caller     *)
(*   SpecBudget - the seconds the attempts of one tool call may take       *)
(* Each specification leaves the variables it does not model at their      *)
(* initial values.                                                         *)
(***************************************************************************)
EXTENDS Integers, Sequences, FiniteSets, TLC

VARIABLES
    \* ---- framing (McpStdioClient) ----
    pipe,            \* bytes the peer has written to stdout and nobody has read yet
    peer_closed,     \* the peer closed its end of stdout
    recv_buf,        \* self._recv_buf
    rpc,             \* position inside _read_message: "idle" | "header" | "body"
    buf,             \* local buf (header loop)
    rest,            \* local rest (body loop)
    content_length,  \* local content_length
    taken,           \* number of bytes this call has taken from the pipe so far
    last,            \* how the last _read_message ended
    sent,            \* history: payloads handed to _send, in order
    got,             \* history: payloads returned by _read_message, in order
    used,            \* history: <<body bytes held, content_length>> when the last read ended
    lost,            \* history: a failed read dropped bytes it had taken from the pipe
    \* ---- shared backend session ----
    grafana_endpoint,\* GRAFANA_ENDPOINT is set
    backend,         \* _backend: 0 for None, else the session
    backend_lock,    \* _backend_lock: "free", else the thread holding it
    nsess,           \* sessions (child processes) launched so far
    session,         \* per session: the AmgMcpBackend / McpStdioClient / child state
    pc,              \* per thread: position inside _backend_tool_call_safe
    th,              \* per thread: its locals
    result,          \* per thread: what its last _backend_tool_call_safe returned
    ncalls,          \* tool calls started so far
    nstray,          \* unsolicited frames the children have written so far
    faulted,         \* history: <<session, fault>> for every call that returned a fault
    \* ---- tool functions ----
    env,             \* the environment variables the tool functions read
    datasource_cache_value,  \* _datasource_cache_value
    tool,            \* history: the tool function that ran last
    ret,             \* history: what it returned
    tried,           \* history: the tiers it consulted, in order
    asked,           \* history: the datasourceName of the last amgmcp_query_datasource
    \* ---- capability filtering ----
    tool_supported_keys,  \* self._tool_supported_keys of the session
    call,            \* history: the name and arguments of the last tool_call
    forwarded,       \* history: the params of the tools/call it wrote
    \* ---- datasource list cache ----
    datasource_cache_at,  \* _datasource_cache_at, in seconds
    datasource_cache_lock,  \* _datasource_cache_lock: "free", else the thread holding it
    now,             \* time.time(), in seconds
    cache_ttl_raw,   \* the environment variable DATASOURCE_LIST_CACHE_TTL_S
    looked,          \* history: the last _cached_datasource_list and its result
    \* ---- one request() against the clock ----
    child,           \* the child: "running", "hung" (reads and writes nothing), "exited"
    stdin_bytes,     \* bytes written to the child's stdin that it has not read
    unsent,          \* bytes of the request that _send has still to write
    inbox,           \* what the child's stdout holds: "none", "stray", "response"
    rq,              \* position inside request(): "idle", "send", "loop", "read", "reset", "done"
    elapsed,         \* seconds since request() took its start time
    read_elapsed,    \* seconds since the running _read_message took its start time
    rq_result,       \* what the call ended in
    \* ---- the time one tool call may take ----
    chain,           \* "backend": a delegated tool; "prometheus": the Prometheus branch
    constructed,     \* a backend session exists when the call begins
    stage,           \* the attempt the call is at: "start", ..., "done"
    spent,           \* seconds the attempts of this call have taken
    \* ---- the two readers of mcp_query_runner and of the proxy ----
    runner_stdout,   \* bytes of the stream the reader of mcp_query_runner has not read
    runner_out,      \* history: how each _read_message of mcp_query_runner ended
    proxy_out,       \* history: how each _read_message of the proxy ended
    \* ---- remote-write proxy: the token cache ----
    token_cache,     \* _token_cache: access_token and expires_at
    handler,         \* per request handler: its position in _get_managed_identity_token and its locals
    issued,          \* tokens the identity endpoint has issued so far
    served           \* history: what the last _get_managed_identity_token returned

frameVars == <<pipe, peer_closed, recv_buf, rpc, buf, rest, content_length,
               taken, last, sent, got, used, lost>>

sessVars == <<grafana_endpoint, backend, backend_lock, nsess, session, pc, th,
              result, ncalls, nstray, faulted>>

filterVars == <<tool_supported_keys, call, forwarded>>

cacheVars == <<datasource_cache_at, datasource_cache_lock, now, cache_ttl_raw, looked>>

sendVars == <<child, stdin_bytes, unsent, inbox, rq, elapsed, read_elapsed,
              rq_result>>

\* the variables of the parts that are checked on their own
budgetVars == <<chain, constructed, stage, spent>>

readerVars == <<runner_stdout, runner_out, proxy_out>>

tokenVars == <<token_cache, handler, issued, served>>

pureVars == <<filterVars, cacheVars, sendVars, budgetVars, readerVars, tokenVars>>

notFilter == <<cacheVars, sendVars, budgetVars, readerVars, tokenVars>>

notCache == <<filterVars, sendVars, budgetVars, readerVars, tokenVars>>

notSend == <<filterVars, cacheVars, budgetVars, readerVars, tokenVars>>

notBudget == <<filterVars, cacheVars, sendVars, readerVars, tokenVars>>

routerVars == <<env, datasource_cache_value, tool, ret, tried, asked, pureVars>>

vars == <<frameVars, sessVars, routerVars>>

----------------------------------------------------------------------------
\* Bounds

MaxMsgs == 2
MaxBody == 1
MaxCalls == 2
MaxTokens == 2
MaxClock == 4
ClockStep == 60
MaxStray == 1

----------------------------------------------------------------------------
\* Bytes.  "CL" stands for the 14 bytes of the header name Content-Length (in
\* any letter case: the code lower-cases the line before comparing), "CR" and
\* "LF" for \r and \n, "SP" for a blank.

ReadChunk == 4096

Digit == <<"0", "1", "2", "3", "4", "5", "6", "7", "8", "9">>

BodyAlphabet == {"a"}

Min(a, b) == IF a < b THEN a ELSE b

Max(a, b) == IF a < b THEN b ELSE a

Drop(s, n) == SubSeq(s, n + 1, Len(s))

Take(s, n) == SubSeq(s, 1, Min(n, Len(s)))

IsPrefix(s, t) == Len(s) <= Len(t) /\ SubSeq(t, 1, Len(s)) = s

\* str(n) for n >= 0
RECURSIVE Decimal(_)
Decimal(n) ==
    IF n < 10 THEN <<Digit[n + 1]>> ELSE Decimal(n \div 10) \o <<Digit[(n % 10) + 1]>>

DigitValue(c) == CHOOSE d \in 0..9 : Digit[d + 1] = c

IsDigit(c) == \E d \in 0..9 : Digit[d + 1] = c

\* bytes.strip() restricted to blanks
RECURSIVE Strip(_)
Strip(s) ==
    IF s = <<>> THEN s
    ELSE IF Head(s) = "SP" THEN Strip(Tail(s))
    ELSE IF s[Len(s)] = "SP" THEN Strip(SubSeq(s, 1, Len(s) - 1))
    ELSE s

\* int(text): -1 stands for ValueError
RECURSIVE ParseDigits(_, _)
ParseDigits(s, acc) ==
    IF s = <<>> THEN acc
    ELSE IF ~IsDigit(Head(s)) THEN -1
    ELSE ParseDigits(Tail(s), acc * 10 + DigitValue(Head(s)))

ParseInt(s) == IF Strip(s) = <<>> THEN -1 ELSE ParseDigits(Strip(s), 0)

\* data.find(pat): 0-based index of the first occurrence, -1 if none
Find(data, pat) ==
    LET hits == {i \in 0..(Len(data) - Len(pat)) :
                    SubSeq(data, i + 1, i + Len(pat)) = pat}
    IN  IF hits = {} THEN -1 ELSE CHOOSE i \in hits : \A j \in hits : i <= j

CRLFCRLF == <<"CR", "LF", "CR", "LF">>

LFLF == <<"LF", "LF">>

\* json.dumps(payload, separators=(",", ":")).encode("utf-8"): an object is
\* written between braces; the payload is the sequence of bytes between them.
JsonDumps(payload) == <<"{">> \o payload \o <<"}">>

JsonOk(body) ==
    /\ Len(body) >= 2
    /\ body[1] = "{"
    /\ body[Len(body)] = "}"
    /\ \A i \in 2..(Len(body) - 1) : body[i] \in BodyAlphabet

\* json.loads(body_bytes.decode("utf-8")), defined when JsonOk(body)
JsonLoads(body) == SubSeq(body, 2, Len(body) - 1)

\* _send: header then body
SendBytes(payload) ==
    LET body == JsonDumps(payload)
    IN  <<"CL", ":", "SP">> \o Decimal(Len(body)) \o CRLFCRLF \o body

FindHeaderEndShortSep(data) ==
    IF Find(data, CRLFCRLF) >= 0 THEN <<Find(data, CRLFCRLF), 2>>
    ELSE IF Find(data, LFLF) >= 0 THEN <<Find(data, LFLF), 2>>
    ELSE <<-1, 0>>

\* _find_header_end: <<header_end, sep_len>>
FindHeaderEnd(data) ==
    IF Find(data, CRLFCRLF) >= 0 THEN <<Find(data, CRLFCRLF), 4>>
    ELSE IF Find(data, LFLF) >= 0 THEN <<Find(data, LFLF), 2>>
    ELSE <<-1, 0>>

\* header_blob.replace(b"\r\n", b"\n")
RECURSIVE Normalize(_)
Normalize(s) ==
    IF s = <<>> THEN s
    ELSE IF Len(s) >= 2 /\ s[1] = "CR" /\ s[2] = "LF" THEN <<"LF">> \o Normalize(Drop(s, 2))
    ELSE <<Head(s)>> \o Normalize(Tail(s))

\* normalized.split(b"\n")
RECURSIVE SplitLines(_)
SplitLines(s) ==
    LET i == Find(s, <<"LF">>)
    IN  IF i < 0 THEN <<s>> ELSE <<Take(s, i)>> \o SplitLines(Drop(s, i + 1))

IsLengthLine(line) == Len(line) >= 2 /\ line[1] = "CL" /\ line[2] = ":"

\* the for loop over the header lines: -2 stands for content_length None
\* (ValueError "Missing Content-Length header"), -1 for int() raising ValueError
RECURSIVE FirstLength(_)
FirstLength(lines) ==
    IF lines = <<>> THEN -2
    ELSE IF IsLengthLine(Head(lines)) THEN ParseInt(Drop(Head(lines), 2))
    ELSE FirstLength(Tail(lines))

HeaderLength(header_blob) == FirstLength(SplitLines(Normalize(header_blob)))

BodyIncompleteOffByOne(r, n) == Len(r) < n - 1

\* the body loop's guard: the loop runs while len(rest) < content_length
BodyIncomplete(r, n) == Len(r) < n

Payloads == UNION {[1..n -> BodyAlphabet] : n \in 0..MaxBody}

\* line 161: self._recv_buf = rest[content_length:]
Leftover(r, n) == Drop(r, Min(n, Len(r)))

\* the separators _find_header_end accepts (lines 107-113)
Separators == {CRLFCRLF, LFLF}

\* a message as a peer frames it, with either separator
FramedBytes(payload, sep) ==
    LET body == JsonDumps(payload)
    IN  <<"CL", ":", "SP">> \o Decimal(Len(body)) \o sep \o body

\* the byte streams that hold the payloads, framed one after the other
RECURSIVE Framings(_)
Framings(payloads) ==
    IF payloads = <<>> THEN {<<>>}
    ELSE {FramedBytes(Head(payloads), sep) \o t :
            sep \in Separators, t \in Framings(Tail(payloads))}

\* the index after the separator that comes first in data, 0 if there is none
EarliestHeaderEnd(data) ==
    LET i == Find(data, CRLFCRLF)
        j == Find(data, LFLF)
    IN  IF i >= 0 /\ (j < 0 \/ i < j) THEN i + 4
        ELSE IF j >= 0 THEN j + 2
        ELSE 0

----------------------------------------------------------------------------
\* Shared backend session: data

Threads == {"t1", "t2"}

\* every call launches at most one session
Sessions == 1..MaxCalls

\* a message on a child's stdout: a response (to the request at position re of
\* the session's stdin), a notification (no id) or a frame that does not parse
NoMsg == [kind |-> "none", id |-> 0, re |-> 0, err |-> FALSE]

Response(id, re, err) == [kind |-> "resp", id |-> id, re |-> re, err |-> err]

Notification == [kind |-> "notif", id |-> 0, re |-> 0, err |-> FALSE]

BadFrame == [kind |-> "bad", id |-> 0, re |-> 0, err |-> FALSE]

\* AmgMcpBackend.__init__ line 313 and McpStdioClient.__init__
NewSession ==
    [next_id |-> 1, wire |-> <<>>, out |-> <<>>, answered |-> {},
     stdin_closed |-> FALSE, alive |-> TRUE, lock |-> "free"]

NotLaunched ==
    [next_id |-> 0, wire |-> <<>>, out |-> <<>>, answered |-> {},
     stdin_closed |-> FALSE, alive |-> FALSE, lock |-> "free"]

NoLocals ==
    [sess |-> 0, phase |-> "none", req_id |-> 0, tmp |-> 0, mypos |-> 0,
     exc |-> "none", fault |-> "none", resp |-> NoMsg, heard |-> FALSE,
     warm |-> FALSE]

NoResult == [kind |-> "none", sess |-> 0, resp |-> NoMsg, heard |-> FALSE]

\* None
None == [none |-> TRUE]

IsNone(v) == "none" \in DOMAIN v

\* the defaults of _env_bool and _env_str at the places the flags are read
DefaultFlags ==
    [LOKI_ENDPOINT |-> FALSE,
     AMW_QUERY_ENDPOINT |-> FALSE,
     PREFER_LOKI_DIRECT_DATASOURCE_LIST |-> TRUE,
     ENABLE_BACKEND_PROMETHEUS |-> FALSE,
     ENABLE_GRAFANA_DIRECT_SEARCH |-> FALSE,
     ENABLE_PLACEHOLDER_IMAGE_RENDER |-> TRUE,
     ENABLE_AMG_MCP_RENDER_FALLBACK |-> FALSE,
     DISABLE_AMGMCP_AZURE_TOOLS |-> TRUE]

\* the tool functions before any call: nothing cached (line 1025)
RouterStart ==
    /\ datasource_cache_value = None
    /\ tool = "none"
    /\ ret = None
    /\ tried = <<>>
    /\ asked = None

\* __init__, lines 346-356: the tool names the registry has an entry for
RegisteredTools ==
    {"amgmcp_datasource_list", "amgmcp_query_datasource",
     "amgmcp_dashboard_search", "amgmcp_query_resource_log",
     "amgmcp_query_resource_graph", "amgmcp_query_azure_subscriptions",
     "amgmcp_image_render"}

\* a session whose tools/list response named no tool, and no tool_call yet
FilterStart ==
    /\ tool_supported_keys = [q \in RegisteredTools |-> {}]
    /\ call = None
    /\ forwarded = None

\* lines 1023-1024: nothing stored, _datasource_cache_at = 0.0; the variable
\* DATASOURCE_LIST_CACHE_TTL_S is not set
CacheStart ==
    /\ datasource_cache_at = 0
    /\ datasource_cache_lock = "free"
    /\ now = 0
    /\ cache_ttl_raw = [kind |-> "unset", value |-> 0]
    /\ looked = None

\* no request() has begun
SendStart ==
    /\ child = "running"
    /\ stdin_bytes = 0
    /\ unsent = 0
    /\ inbox = "none"
    /\ rq = "idle"
    /\ elapsed = 0
    /\ read_elapsed = 0
    /\ rq_result = "none"

\* no tool call is being timed
BudgetStart ==
    /\ chain = "backend"
    /\ constructed = FALSE
    /\ stage = "start"
    /\ spent = 0

\* a request handler of the remote-write proxy outside
\* _get_managed_identity_token; 0 stands for None
NoRequest ==
    [at |-> "idle", access_token |-> 0, expires_at |-> 0, checked |-> 0,
     checked_at |-> 0]

\* no reader has been called
ReaderStart ==
    /\ runner_stdout = <<>>
    /\ runner_out = <<>>
    /\ proxy_out = <<>>

\* server.py lines 22-25: nothing cached, no request is being handled
TokenStart ==
    /\ token_cache = [access_token |-> 0, expires_at |-> 0]
    /\ handler = [h \in Threads |-> NoRequest]
    /\ issued = <<>>
    /\ served = [none |-> TRUE]

PureStart ==
    FilterStart /\ CacheStart /\ SendStart /\ BudgetStart /\ ReaderStart /\ TokenStart

SessStart ==
    /\ backend = 0
    /\ backend_lock = "free"
    /\ nsess = 0
    /\ session = [s \in Sessions |-> NotLaunched]
    /\ pc = [t \in Threads |-> "idle"]
    /\ th = [t \in Threads |-> NoLocals]
    /\ result = [t \in Threads |-> NoResult]
    /\ ncalls = 0
    /\ nstray = 0
    /\ faulted = {}

----------------------------------------------------------------------------
\* Framing: actions

FrameStart ==
    /\ pipe = <<>>
    /\ peer_closed = FALSE
    /\ recv_buf = <<>>
    /\ rpc = "idle"
    /\ buf = <<>>
    /\ rest = <<>>
    /\ content_length = 0
    /\ taken = 0
    /\ last = "none"
    /\ sent = <<>>
    /\ got = <<>>
    /\ used = <<0, 0>>
    /\ lost = FALSE

FrameInit ==
    /\ FrameStart
    /\ SessStart
    /\ RouterStart
    /\ PureStart
    /\ grafana_endpoint = TRUE
    /\ env = DefaultFlags

\* _send(payload) on a pipe whose other end _read_message reads
Write(payload) ==
    /\ Len(sent) < MaxMsgs
    /\ ~peer_closed
    /\ pipe' = pipe \o SendBytes(payload)
    /\ sent' = Append(sent, payload)
    /\ UNCHANGED <<peer_closed, recv_buf, rpc, buf, rest, content_length, taken,
                   last, got, used, lost>>
    /\ UNCHANGED <<sessVars, routerVars>>

\* the peer writes a message framed with LF LF, which _find_header_end accepts
\* (lines 110-112)
WriteLf(payload) ==
    /\ Len(sent) < MaxMsgs
    /\ ~peer_closed
    /\ pipe' = pipe \o FramedBytes(payload, LFLF)
    /\ sent' = Append(sent, payload)
    /\ UNCHANGED <<peer_closed, recv_buf, rpc, buf, rest, content_length, taken,
                   last, got, used, lost>>
    /\ UNCHANGED <<sessVars, routerVars>>

\* the writer goes away: stdout reaches end-of-stream once the pipe is drained
ClosePeer ==
    /\ ~peer_closed
    /\ peer_closed' = TRUE
    /\ UNCHANGED <<pipe, recv_buf, rpc, buf, rest, content_length, taken, last,
                   sent, got, used, lost>>
    /\ UNCHANGED <<sessVars, routerVars>>

\* an exception leaves _read_message: the locals are gone, self._recv_buf keeps
\* its old value, so whatever the call had taken from the pipe is dropped
Raise(kind, have, want) ==
    /\ rpc' = "idle"
    /\ last' = kind
    /\ buf' = <<>>
    /\ rest' = <<>>
    /\ content_length' = 0
    /\ taken' = 0
    /\ lost' = (lost \/ taken > 0)
    /\ used' = <<have, want>>
    /\ UNCHANGED <<recv_buf, got>>

\* lines 104-105
ReadStart ==
    /\ rpc = "idle"
    /\ rpc' = "header"
    /\ buf' = recv_buf
    /\ UNCHANGED <<pipe, peer_closed, recv_buf, rest, content_length, taken, last,
                   sent, got, used, lost>>
    /\ UNCHANGED <<sessVars, routerVars>>

\* lines 117-132, one pass of the header loop that reads a chunk
HeaderRead ==
    /\ rpc = "header"
    /\ FindHeaderEnd(buf)[1] < 0
    /\ pipe # <<>>
    /\ \E k \in 1..Min(Len(pipe), ReadChunk) :
          /\ buf' = buf \o Take(pipe, k)
          /\ pipe' = Drop(pipe, k)
          /\ taken' = taken + k
    /\ UNCHANGED <<peer_closed, recv_buf, rpc, rest, content_length, last, sent,
                   got, used, lost>>
    /\ UNCHANGED <<sessVars, routerVars>>

\* lines 118-124: the deadline passes
HeaderTimeout ==
    /\ rpc = "header"
    /\ FindHeaderEnd(buf)[1] < 0
    /\ Raise("Timeout", 0, 0)
    /\ UNCHANGED <<pipe, peer_closed, sent>>
    /\ UNCHANGED <<sessVars, routerVars>>

\* lines 126-129: os.read returns b""
HeaderEof ==
    /\ rpc = "header"
    /\ FindHeaderEnd(buf)[1] < 0
    /\ pipe = <<>>
    /\ peer_closed
    /\ Raise("Closed", 0, 0)
    /\ UNCHANGED <<pipe, peer_closed, sent>>
    /\ UNCHANGED <<sessVars, routerVars>>

\* lines 134-143: the separator is in buf
HeaderParse ==
    /\ rpc = "header"
    /\ FindHeaderEnd(buf)[1] >= 0
    /\ LET header_end == FindHeaderEnd(buf)[1]
           sep_len == FindHeaderEnd(buf)[2]
           n == HeaderLength(Take(buf, header_end))
       IN  IF n < 0
           THEN Raise("Framing", 0, 0)
           ELSE /\ rpc' = "body"
                /\ rest' = Drop(buf, header_end + sep_len)
                /\ content_length' = n
                /\ buf' = <<>>
                /\ UNCHANGED <<recv_buf, taken, last, got, used, lost>>
    /\ UNCHANGED <<pipe, peer_closed, sent>>
    /\ UNCHANGED <<sessVars, routerVars>>

\* lines 145-158, one pass of the body loop that reads a chunk
BodyRead ==
    /\ rpc = "body"
    /\ BodyIncomplete(rest, content_length)
    /\ pipe # <<>>
    /\ \E k \in 1..Min(Len(pipe), Max(1, content_length - Len(rest))) :
          /\ rest' = rest \o Take(pipe, k)
          /\ pipe' = Drop(pipe, k)
          /\ taken' = taken + k
    /\ UNCHANGED <<peer_closed, recv_buf, rpc, buf, content_length, last, sent,
                   got, used, lost>>
    /\ UNCHANGED <<sessVars, routerVars>>

\* lines 146-152
BodyTimeout ==
    /\ rpc = "body"
    /\ BodyIncomplete(rest, content_length)
    /\ Raise("Timeout", Len(rest), content_length)
    /\ UNCHANGED <<pipe, peer_closed, sent>>
    /\ UNCHANGED <<sessVars, routerVars>>

\* lines 154-157
BodyEof ==
    /\ rpc = "body"
    /\ BodyIncomplete(rest, content_length)
    /\ pipe = <<>>
    /\ peer_closed
    /\ Raise("Closed", Len(rest), content_length)
    /\ UNCHANGED <<pipe, peer_closed, sent>>
    /\ UNCHANGED <<sessVars, routerVars>>

\* lines 160-163
BodyDone ==
    /\ rpc = "body"
    /\ ~BodyIncomplete(rest, content_length)
    /\ LET body_bytes == Take(rest, content_length)
       IN  /\ recv_buf' = Leftover(rest, content_length)
           /\ used' = <<Len(body_bytes), content_length>>
           /\ IF JsonOk(body_bytes)
              THEN /\ last' = "msg"
                   /\ got' = Append(got, JsonLoads(body_bytes))
              ELSE /\ last' = "Framing"
                   /\ got' = got
    /\ rpc' = "idle"
    /\ buf' = <<>>
    /\ rest' = <<>>
    /\ content_length' = 0
    /\ taken' = 0
    /\ UNCHANGED <<pipe, peer_closed, sent, lost>>
    /\ UNCHANGED <<sessVars, routerVars>>

FrameNext ==
    \/ \E p \in Payloads : Write(p)
    \/ ClosePeer
    \/ ReadStart
    \/ HeaderRead
    \/ HeaderTimeout
    \/ HeaderEof
    \/ HeaderParse
    \/ BodyRead
    \/ BodyTimeout
    \/ BodyEof
    \/ BodyDone

SpecFrame == FrameInit /\ [][FrameNext]_vars

\* the reader against a peer that frames with either separator
PeerNext ==
    \/ FrameNext
    \/ \E p \in Payloads : WriteLf(p)

SpecPeer == FrameInit /\ [][PeerNext]_vars

\* The reader of mcp_query_runner.py (lines 91-130) next to the reader of the
\* proxy, on one byte stream.  The peer has written the stream and closed its
\* end; no deadline passes.

\* mcp_query_runner.py lines 95-96
header_complete(data) == Find(data, CRLFCRLF) >= 0 \/ Find(data, LFLF) >= 0

\* lines 98-105: read(1) until the header is complete.  The number of bytes
\* the loop takes, -1 when the stream ends before.
RunnerHeaderBytes(stream) ==
    IF \E n \in 0..Len(stream) : header_complete(Take(stream, n))
    THEN CHOOSE n \in 0..Len(stream) :
            /\ header_complete(Take(stream, n))
            /\ \A k \in 0..(n - 1) : ~header_complete(Take(stream, k))
    ELSE -1

\* lines 107-110: headers.split(separator, 1)
RunnerSplit(headers) ==
    LET i == Find(headers, CRLFCRLF)
        j == Find(headers, LFLF)
    IN  IF i >= 0 THEN <<Take(headers, i), Drop(headers, i + 4)>>
        ELSE <<Take(headers, j), Drop(headers, j + 2)>>

Ended(kind, body, left) == [kind |-> kind, body |-> body, left |-> left]

\* lines 91-130 on the bytes not yet read: how the call ends, the message it
\* returns and the bytes it leaves in the stream
runner_read_message(stream) ==
    LET n == RunnerHeaderBytes(stream)
    IN  IF n < 0 THEN Ended("Closed", <<>>, <<>>)
        ELSE LET parts == RunnerSplit(Take(stream, n))
                 after == Drop(stream, n)
                 length == HeaderLength(parts[1])
                 need == Max(0, length - Len(parts[2]))
                 body == parts[2] \o Take(after, Min(need, Len(after)))
             IN  IF length < 0 THEN Ended("Framing", <<>>, after)
                 ELSE IF Len(after) < need THEN Ended("Closed", <<>>, <<>>)
                 ELSE IF JsonOk(body)
                 THEN Ended("msg", JsonLoads(body), Drop(after, need))
                 ELSE Ended("Framing", <<>>, Drop(after, need))

\* the byte streams: messages framed one after the other with either
\* separator, cut where the peer stopped writing
Streams ==
    UNION {{Take(f, k) : k \in 0..Len(f)} :
             f \in UNION {Framings(ps) :
                            ps \in UNION {[1..n -> Payloads] : n \in 0..MaxMsgs}}}

notReader == <<sessVars, env, datasource_cache_value, tool, ret, tried, asked,
               filterVars, cacheVars, sendVars, budgetVars, tokenVars>>

\* one _read_message of mcp_query_runner
RunnerRead ==
    /\ Len(runner_out) <= MaxMsgs
    /\ LET r == runner_read_message(runner_stdout)
       IN  /\ runner_out' = Append(runner_out, [kind |-> r.kind, body |-> r.body])
           /\ runner_stdout' = r.left
    /\ UNCHANGED <<frameVars, proxy_out, notReader>>

\* one _read_message of the proxy begins
ProxyRead ==
    /\ last = "none"
    /\ Len(proxy_out) <= MaxMsgs
    /\ ReadStart

\* it has ended: by a message or by an exception
ProxyReturn ==
    /\ rpc = "idle"
    /\ last # "none"
    /\ proxy_out' = Append(proxy_out,
                           [kind |-> last,
                            body |-> IF last = "msg" THEN got[Len(got)] ELSE <<>>])
    /\ last' = "none"
    /\ UNCHANGED <<pipe, peer_closed, recv_buf, rpc, buf, rest, content_length,
                   taken, sent, got, used, lost>>
    /\ UNCHANGED <<runner_stdout, runner_out, notReader>>

ReadersInit ==
    /\ \E stream \in Streams :
         /\ pipe = stream
         /\ runner_stdout = stream
    /\ peer_closed = TRUE
    /\ recv_buf = <<>>
    /\ rpc = "idle"
    /\ buf = <<>>
    /\ rest = <<>>
    /\ content_length = 0
    /\ taken = 0
    /\ last = "none"
    /\ sent = <<>>
    /\ got = <<>>
    /\ used = <<0, 0>>
    /\ lost = FALSE
    /\ runner_out = <<>>
    /\ proxy_out = <<>>
    /\ SessStart
    /\ RouterStart
    /\ FilterStart
    /\ CacheStart
    /\ SendStart
    /\ BudgetStart
    /\ TokenStart
    /\ grafana_endpoint = TRUE
    /\ env = DefaultFlags

ReadersNext ==
    \/ RunnerRead
    \/ ProxyRead
    \/ HeaderRead
    \/ HeaderEof
    \/ HeaderParse
    \/ BodyRead
    \/ BodyEof
    \/ BodyDone
    \/ ProxyReturn

SpecReaders == ReadersInit /\ [][ReadersNext]_vars

\* The reader under the request lock of the cached session.  A thread is at
\* "request" while it is inside `with self._lock` of request() (lines 166-178),
\* at "handler" when a TimeoutError or RuntimeError has left the with-block and
\* _reset_backend is still to run (lines 960-961, 968-969).

request_lock_free == \A t \in Threads : pc[t] # "request"

\* _get_backend returns the cached session (lines 1358-1359) and request()
\* takes its lock (line 166)
EnterRequest(t) ==
    /\ pc[t] = "idle"
    /\ backend = 1
    /\ request_lock_free
    /\ rpc = "idle"
    /\ ncalls < MaxCalls
    /\ pc' = [pc EXCEPT ![t] = "request"]
    /\ ncalls' = ncalls + 1
    /\ last' = "none"
    /\ UNCHANGED <<pipe, peer_closed, recv_buf, rpc, buf, rest, content_length,
                   taken, sent, got, used, lost>>
    /\ UNCHANGED <<grafana_endpoint, backend, backend_lock, nsess, session, th,
                   result, nstray, faulted, routerVars>>

\* line 174, once more round the loop of request(): the message read carried
\* another id, or none has been read yet
ReadUnderLock ==
    /\ \E t \in Threads : pc[t] = "request"
    /\ last \in {"none", "msg"}
    /\ ReadStart

\* the with-block of request() is left: by `return` when the message carries
\* the id (lines 177-178), by the exception _read_message raised otherwise.
\* TimeoutError and RuntimeError go to the handlers that reset, a ValueError to
\* the handler that only returns the failure map (lines 976-981).
LeaveRequest(t) ==
    /\ pc[t] = "request"
    /\ rpc = "idle"
    /\ last # "none"
    /\ pc' = [pc EXCEPT ![t] = IF last \in {"Timeout", "Closed"}
                                THEN "handler" ELSE "idle"]
    /\ UNCHANGED <<frameVars, routerVars>>
    /\ UNCHANGED <<grafana_endpoint, backend, backend_lock, nsess, session, th,
                   result, ncalls, nstray, faulted>>

\* _reset_backend (lines 940-947): close() ends the child, _backend = None
ResetRequest(t) ==
    /\ pc[t] = "handler"
    /\ pc' = [pc EXCEPT ![t] = "idle"]
    /\ backend' = 0
    /\ peer_closed' = (peer_closed \/ backend = 1)
    /\ UNCHANGED <<pipe, recv_buf, rpc, buf, rest, content_length, taken, last,
                   sent, got, used, lost>>
    /\ UNCHANGED <<grafana_endpoint, backend_lock, nsess, session, th, result,
                   ncalls, nstray, faulted, routerVars>>

\* the session is constructed and cached, its stream is at the end of the
\* tools/list response (line 340) and nothing is buffered
BoundaryInit ==
    /\ FrameStart
    /\ RouterStart
    /\ PureStart
    /\ grafana_endpoint = TRUE
    /\ env = DefaultFlags
    /\ backend = 1
    /\ backend_lock = "free"
    /\ nsess = 1
    /\ session = [s \in Sessions |-> IF s = 1 THEN NewSession ELSE NotLaunched]
    /\ pc = [t \in Threads |-> "idle"]
    /\ th = [t \in Threads |-> NoLocals]
    /\ result = [t \in Threads |-> NoResult]
    /\ ncalls = 0
    /\ nstray = 0
    /\ faulted = {}

BoundaryNext ==
    \/ \E p \in Payloads : Write(p)
    \/ ClosePeer
    \/ \E t \in Threads : EnterRequest(t)
    \/ ReadUnderLock
    \/ HeaderRead
    \/ HeaderTimeout
    \/ HeaderEof
    \/ HeaderParse
    \/ BodyRead
    \/ BodyTimeout
    \/ BodyEof
    \/ BodyDone
    \/ \E t \in Threads : LeaveRequest(t)
    \/ \E t \in Threads : ResetRequest(t)

SpecBoundary == BoundaryInit /\ [][BoundaryNext]_vars

----------------------------------------------------------------------------
\* Framing: properties

\* C5: round trip.  As long as no failed read has dropped bytes it took from
\* the pipe, the payloads _read_message returns are, in order, exactly the
\* payloads _send wrote, whatever the chunks os.read delivers, and no read ends
\* in a framing error.
RoundTrip == ~lost => (IsPrefix(got, sent) /\ last # "Framing")

RoundTripWitness ==
    /\ ~lost
    /\ Len(got) = 2
    /\ got = sent
    /\ got[1] # got[2]
    /\ Len(got[1]) = MaxBody

\* C6: a read that ends while fewer than content_length body bytes are held
\* ends in Timeout (or in Closed, when the stream is at end-of-file), and every
\* message returned was decoded from exactly content_length body bytes.
NoTruncatedMessage ==
    /\ [](last = "msg" => used[1] = used[2])
    /\ [][(rpc = "body" /\ Len(rest) < content_length /\ rpc' = "idle")
            => (\/ last' = "Timeout"
                \/ last' = "Closed" /\ pipe = <<>> /\ peer_closed)]_vars

NoTruncatedMessageWitness ==
    /\ last = "Timeout"
    /\ 0 < used[1]
    /\ used[1] < used[2]

\* C26: when a read has taken the bytes of more than one message, the
\* following reads return every message once and in the order written: the
\* bytes taken past the end of a message stay in the buffer, ahead of what is
\* still in the pipe, and are the first bytes the next read parses.
OverReadStaysBuffered ==
    /\ [](~lost => (IsPrefix(got, sent) /\ last # "Framing"))
    /\ []((~lost /\ rpc = "idle")
            => recv_buf \o pipe \in Framings(Drop(sent, Len(got))))
    /\ [][(rpc = "idle" /\ rpc' = "header") => buf' = recv_buf]_vars

\* C27: the header ends at the separator that comes first in the bytes held,
\* CR LF CR LF or LF LF: the body starts right after it.
HeaderEndsAtEarliestSeparator ==
    [][(rpc = "header" /\ rpc' = "body")
        => rest' = Drop(buf, EarliestHeaderEnd(buf))]_vars

----------------------------------------------------------------------------
\* Shared backend session: actions.  A thread runs _backend_tool_call_safe
\* (lines 956-981; _backend_tool_call_safe_with_timeout, lines 984-1021, has
\* the same shape): _get_backend, then AmgMcpBackend._call, then the handlers.

ResetsTimeoutOnly(exc) == exc = "TimeoutError"

ResetsRuntimeOnly(exc) == exc = "RuntimeError"

\* the except clauses that call _reset_backend (lines 960-961, 968-969)
Resets(exc) == exc \in {"TimeoutError", "RuntimeError"}

\* line 177: msg.get("id") == req_id
Matches(msg, req_id) == msg.kind = "resp" /\ msg.id = req_id

\* a fault of a call on the shared session, noted when the call returns
Noted(l) ==
    IF l.phase = "tool" THEN faulted \cup {<<l.sess, l.fault>>} ELSE faulted

\* the map an except clause returns (lines 962-967, 970-975, 977-981)
Failure(l) == [kind |-> l.exc, sess |-> l.sess, resp |-> NoMsg, heard |-> l.heard]

\* an exception leaves the thread's with-blocks and reaches the handlers of
\* _backend_tool_call_safe: lines 976-981 return at once, lines 960-975 have
\* _reset_backend to run first.  In _warm_backend_async it reaches line 1375,
\* which logs it.  loc is the thread's locals at the raise.
Fail(t, loc, exc, fault) ==
    LET l == [loc EXCEPT !.exc = exc, !.fault = fault,
                         !.heard = (fault \in {"ChannelClosed", "Framing"})
                                   \/ loc.heard]
    IN  /\ th' = [th EXCEPT ![t] = l]
        /\ backend_lock' = IF backend_lock = t THEN "free" ELSE backend_lock
        /\ IF loc.warm
           THEN /\ pc' = [pc EXCEPT ![t] = "idle"]
                /\ UNCHANGED <<result, faulted>>
           ELSE IF Resets(exc)
           THEN /\ pc' = [pc EXCEPT ![t] = "handler"]
                /\ result' = [result EXCEPT ![t] = NoResult]
                /\ UNCHANGED faulted
           ELSE /\ pc' = [pc EXCEPT ![t] = "idle"]
                /\ result' = [result EXCEPT ![t] = Failure(l)]
                /\ faulted' = Noted(l)

Unlock(s) == [session EXCEPT ![s].lock = "free"]

\* a thread holds a McpStdioClient from _get_backend until request() returns
\* or raises
Holds(u, s) == pc[u] \notin {"idle", "handler"} /\ th[u].sess = s

\* Thread t has let go of its session and b is _backend: a McpStdioClient that
\* is neither _backend nor held by another thread is unreferenced, and its
\* fields are gone with it.  The child process (alive, stdin_closed) is not.
Collect(ss, b, t) ==
    [s \in Sessions |->
        IF s = b \/ \E u \in Threads \ {t} : Holds(u, s)
        THEN ss[s]
        ELSE [ss[s] EXCEPT !.next_id = 0, !.wire = <<>>, !.out = <<>>,
                           !.answered = {}]]

\* a tool function enters _backend_tool_call_safe and gets _backend_lock
\* (line 1358)
EnterWithoutLock(t) ==
    /\ pc[t] = "idle"
    /\ ncalls < MaxCalls
    /\ ncalls' = ncalls + 1

Enter(t) ==
    /\ pc[t] = "idle"
    /\ ncalls < MaxCalls
    /\ backend_lock = "free"
    /\ ncalls' = ncalls + 1

\* the thread started at line 1385: _warm_backend_async is the first thing it
\* runs, at any time after the import
WarmThread == "t1"

\* the locals of a thread that calls _get_backend from _backend_tool_call_safe
\* (w is FALSE) or from _warm_backend_async (w is TRUE)
Caller(t, w) ==
    /\ w => (t = WarmThread /\ th[t] = NoLocals)
    /\ Enter(t)

\* _get_backend, lines 1358-1360; _warm_backend_async returns at line 1373
GetBackendCached(t, w) ==
    /\ Caller(t, w)
    /\ backend # 0
    /\ th' = [th EXCEPT ![t] = [NoLocals EXCEPT !.sess = backend, !.phase = "tool",
                                                !.warm = w]]
    /\ pc' = [pc EXCEPT ![t] = IF w THEN "idle" ELSE "alloc1"]
    /\ result' = [result EXCEPT ![t] = NoResult]
    /\ UNCHANGED <<grafana_endpoint, backend, backend_lock, nsess, session,
                   nstray, faulted, frameVars, routerVars>>

\* _get_backend, lines 1362-1364
GetBackendNoEndpoint(t, w) ==
    /\ Caller(t, w)
    /\ backend = 0
    /\ ~grafana_endpoint
    /\ Fail(t, [NoLocals EXCEPT !.warm = w], "RuntimeError", "Config")
    /\ UNCHANGED <<grafana_endpoint, backend, nsess, session, nstray, frameVars, routerVars>>

\* _get_backend, line 1366, up to the first _call of AmgMcpBackend.__init__:
\* the thread keeps _backend_lock while it constructs the session
Launch(t, w) ==
    /\ Caller(t, w)
    /\ backend = 0
    /\ grafana_endpoint
    /\ nsess' = nsess + 1
    /\ session' = [session EXCEPT ![nsess + 1] = NewSession]
    /\ backend_lock' = t
    /\ th' = [th EXCEPT ![t] = [NoLocals EXCEPT !.sess = nsess + 1, !.phase = "init",
                                                !.warm = w]]
    /\ pc' = [pc EXCEPT ![t] = "alloc1"]
    /\ result' = [result EXCEPT ![t] = NoResult]
    /\ UNCHANGED <<grafana_endpoint, backend, nstray, faulted, frameVars, routerVars>>

\* subprocess.Popen raises (line 39)
LaunchFails(t, w) ==
    /\ Caller(t, w)
    /\ backend = 0
    /\ grafana_endpoint
    /\ Fail(t, [NoLocals EXCEPT !.warm = w], "OSError", "Launch")
    /\ UNCHANGED <<grafana_endpoint, backend, nsess, session, nstray, frameVars, routerVars>>

\* _call, line 362: req_id = self._next_id
Alloc1(t) ==
    /\ pc[t] = "alloc1"
    /\ th' = [th EXCEPT ![t].req_id = session[th[t].sess].next_id,
                        ![t].mypos = 0, ![t].resp = NoMsg, ![t].heard = FALSE]
    /\ pc' = [pc EXCEPT ![t] = "alloc2"]
    /\ UNCHANGED <<grafana_endpoint, backend, backend_lock, nsess, session,
                   result, ncalls, nstray, faulted, frameVars, routerVars>>

\* _call, line 363: self._next_id += 1, the load
Alloc2(t) ==
    /\ pc[t] = "alloc2"
    /\ th' = [th EXCEPT ![t].tmp = session[th[t].sess].next_id]
    /\ pc' = [pc EXCEPT ![t] = "alloc3"]
    /\ UNCHANGED <<grafana_endpoint, backend, backend_lock, nsess, session,
                   result, ncalls, nstray, faulted, frameVars, routerVars>>

\* _call, line 363: self._next_id += 1, the store
Alloc3(t) ==
    /\ pc[t] = "alloc3"
    /\ session' = [session EXCEPT ![th[t].sess].next_id = th[t].tmp + 1]
    /\ th' = [th EXCEPT ![t].tmp = 0]
    /\ pc' = [pc EXCEPT ![t] = "lock"]
    /\ UNCHANGED <<grafana_endpoint, backend, backend_lock, nsess, result,
                   ncalls, nstray, faulted, frameVars, routerVars>>

LockFreeAlways(s) == TRUE

\* request, line 166, and notify, line 99: `with self._lock` is entered when no
\* thread is inside a with-block of that McpStdioClient
LockFree(s) == session[s].lock = "free"

\* request, lines 166-167: take the session's lock and write the request
SendRequest(t) ==
    LET s == th[t].sess
    IN  /\ pc[t] = "lock"
        /\ LockFree(s)
        /\ ~session[s].stdin_closed
        /\ session[s].alive
        /\ session' = [session EXCEPT ![s].lock = t,
                                      ![s].wire = Append(@, th[t].req_id)]
        /\ th' = [th EXCEPT ![t].mypos = Len(session[s].wire) + 1]
        /\ pc' = [pc EXCEPT ![t] = "read"]
        /\ UNCHANGED <<grafana_endpoint, backend, backend_lock, nsess, result,
                       ncalls, nstray, faulted, frameVars, routerVars>>

\* request, line 167: the write raises, ValueError on a closed file object,
\* BrokenPipeError when the child is gone
SendFails(t) ==
    LET s == th[t].sess
    IN  /\ pc[t] = "lock"
        /\ LockFree(s)
        /\ session[s].stdin_closed \/ ~session[s].alive
        /\ IF session[s].stdin_closed
           THEN Fail(t, th[t], "ValueError", "ClosedFile")
           ELSE Fail(t, th[t], "BrokenPipeError", "BrokenPipe")
        /\ session' = Collect(session, backend, t)
        /\ UNCHANGED <<grafana_endpoint, backend, nsess, ncalls, nstray,
                       frameVars, routerVars>>

\* request, lines 171-174: the deadline passes, in the loop or in _read_message
ReadTimeout(t) ==
    /\ pc[t] = "read"
    /\ Fail(t, th[t], "TimeoutError", "Timeout")
    /\ session' = Collect(Unlock(th[t].sess), backend, t)
    /\ UNCHANGED <<grafana_endpoint, backend, nsess, ncalls, nstray, frameVars, routerVars>>

\* _read_message, lines 126-129: stdout is at end-of-stream
ReadEof(t) ==
    LET s == th[t].sess
    IN  /\ pc[t] = "read"
        /\ session[s].out = <<>>
        /\ ~session[s].alive
        /\ Fail(t, th[t], "RuntimeError", "ChannelClosed")
        /\ session' = Collect(Unlock(s), backend, t)
        /\ UNCHANGED <<grafana_endpoint, backend, nsess, ncalls, nstray,
                       frameVars, routerVars>>

\* _read_message, lines 142-143 and 163: the frame does not parse; the bytes
\* taken from the pipe are gone
ReadGarbage(t) ==
    LET s == th[t].sess
    IN  /\ pc[t] = "read"
        /\ session[s].out # <<>>
        /\ Head(session[s].out).kind = "bad"
        /\ Fail(t, th[t], "ValueError", "Framing")
        /\ session' = Collect([session EXCEPT ![s].lock = "free",
                                              ![s].out = Tail(@)], backend, t)
        /\ UNCHANGED <<grafana_endpoint, backend, nsess, ncalls, nstray,
                       frameVars, routerVars>>

\* request, lines 174-177: a message that is not the response is dropped
ReadOther(t) ==
    LET s == th[t].sess
    IN  /\ pc[t] = "read"
        /\ session[s].out # <<>>
        /\ Head(session[s].out).kind # "bad"
        /\ ~Matches(Head(session[s].out), th[t].req_id)
        /\ session' = [session EXCEPT ![s].out = Tail(@)]
        /\ th' = [th EXCEPT ![t].heard = TRUE]
        /\ UNCHANGED <<grafana_endpoint, backend, backend_lock, nsess, pc,
                       result, ncalls, nstray, faulted, frameVars, routerVars>>

\* __init__, lines 324-338: the response to initialize, then the two
\* notifications (an exception from them is swallowed)
ChecksIsErrorAlways(phase) == TRUE

ChecksIsErrorInitOnly(phase) == phase = "init"

\* lines 329 and 341: __init__ raises on a response whose is_error is set;
\* tool_call, line 377, returns resp.raw without looking
ChecksIsError(phase) == phase \in {"init", "list"}

NotifiedAhead(w, alive) == <<0, 0>> \o w

\* __init__, lines 334-338: the two notifications are written after what is
\* on the child's stdin; a write that raises is passed over
Notified(w, alive) == IF alive THEN w \o <<0, 0>> ELSE w

ReadInitResponse(t) ==
    LET s == th[t].sess
        m == Head(session[s].out)
    IN  /\ pc[t] = "read"
        /\ th[t].phase = "init"
        /\ session[s].out # <<>>
        /\ Matches(m, th[t].req_id)
        /\ IF m.err /\ ChecksIsError("init")
           THEN /\ Fail(t, th[t], "RuntimeError", "HandshakeFailed")
                /\ session' = Collect(Unlock(s), backend, t)
           ELSE /\ session' =
                     [session EXCEPT
                        ![s].lock = "free",
                        ![s].out = Tail(@),
                        ![s].wire = Notified(@, session[s].alive)]
                /\ th' = [th EXCEPT ![t].resp = m, ![t].phase = "list",
                                    ![t].heard = TRUE]
                /\ pc' = [pc EXCEPT ![t] = "alloc1"]
                /\ UNCHANGED <<backend_lock, result, faulted>>
        /\ UNCHANGED <<grafana_endpoint, backend, nsess, ncalls, nstray,
                       frameVars, routerVars>>

\* __init__, lines 340-356, and _get_backend, lines 1366-1367: the response to
\* tools/list; the session becomes _backend and _backend_lock is released
ReadListResponse(t) ==
    LET s == th[t].sess
        m == Head(session[s].out)
    IN  /\ pc[t] = "read"
        /\ th[t].phase = "list"
        /\ session[s].out # <<>>
        /\ Matches(m, th[t].req_id)
        /\ IF m.err /\ ChecksIsError("list")
           THEN /\ Fail(t, th[t], "RuntimeError", "HandshakeFailed")
                /\ session' = Collect(Unlock(s), backend, t)
                /\ UNCHANGED backend
           ELSE /\ session' = [session EXCEPT ![s].lock = "free",
                                              ![s].out = Tail(@)]
                /\ backend' = s
                /\ backend_lock' = "free"
                /\ th' = [th EXCEPT ![t].resp = m, ![t].phase = "tool",
                                    ![t].heard = TRUE]
                /\ pc' = [pc EXCEPT ![t] = IF th[t].warm THEN "idle" ELSE "alloc1"]
                /\ UNCHANGED <<result, faulted>>
        /\ UNCHANGED <<grafana_endpoint, nsess, ncalls, nstray, frameVars, routerVars>>

\* tool_call, lines 371-377, and line 959: the response is returned as it is
ReadToolResponse(t) ==
    LET s == th[t].sess
        m == Head(session[s].out)
    IN  /\ pc[t] = "read"
        /\ th[t].phase = "tool"
        /\ session[s].out # <<>>
        /\ Matches(m, th[t].req_id)
        /\ IF m.err /\ ChecksIsError("tool")
           THEN /\ Fail(t, th[t], "RuntimeError", "RemoteError")
                /\ session' = Collect(Unlock(s), backend, t)
           ELSE /\ session' = Collect([session EXCEPT ![s].lock = "free",
                                                      ![s].out = Tail(@)],
                                      backend, t)
                /\ th' = [th EXCEPT ![t].resp = m, ![t].heard = TRUE]
                /\ result' = [result EXCEPT ![t] =
                                [kind |-> "raw", sess |-> s, resp |-> m,
                                 heard |-> TRUE]]
                /\ pc' = [pc EXCEPT ![t] = "idle"]
                /\ UNCHANGED <<backend_lock, faulted>>
        /\ UNCHANGED <<grafana_endpoint, backend, nsess, ncalls, nstray,
                       frameVars, routerVars>>

ClosedNever(ss, b) == ss

\* _reset_backend, lines 941-946, with close, lines 80-89: nothing to do when
\* _backend is None; else stdin is closed and the child is sent the signal
Closed(ss, b) ==
    IF b = 0 THEN ss
    ELSE [ss EXCEPT ![b].stdin_closed = TRUE, ![b].alive = FALSE]

\* lines 960-975 with _reset_backend, lines 940-947
HandleReset(t) ==
    /\ pc[t] = "handler"
    /\ Resets(th[t].exc)
    /\ backend_lock = "free"
    /\ session' = Collect(Closed(session, backend), 0, t)
    /\ backend' = 0
    /\ result' = [result EXCEPT ![t] = Failure(th[t])]
    /\ faulted' = Noted(th[t])
    /\ pc' = [pc EXCEPT ![t] = "idle"]
    /\ UNCHANGED <<grafana_endpoint, backend_lock, nsess, th, ncalls, nstray,
                   frameVars, routerVars>>

\* Only the thread inside request() (it holds the session's lock) reads the
\* child's stdout, and what the child wrote before that thread took the lock
\* is still in the pipe when it does: the child's writes are interleaved with
\* the steps of the reading thread only.
Reading(s) == session[s].lock # "free"

\* the child answers a request it has read, in any order, once
ChildReply(s, p, err) ==
    /\ s <= nsess
    /\ session[s].alive
    /\ Reading(s)
    /\ p \in 1..Len(session[s].wire)
    /\ session[s].wire[p] # 0
    /\ p \notin session[s].answered
    /\ session' = [session EXCEPT
                     ![s].out = Append(@, Response(session[s].wire[p], p, err)),
                     ![s].answered = @ \cup {p}]
    /\ UNCHANGED <<grafana_endpoint, backend, backend_lock, nsess, pc, th,
                   result, ncalls, nstray, faulted, frameVars, routerVars>>

\* the child writes a notification
ChildNotify(s) ==
    /\ s <= nsess
    /\ session[s].alive
    /\ Reading(s)
    /\ nstray < MaxStray
    /\ nstray' = nstray + 1
    /\ session' = [session EXCEPT ![s].out = Append(@, Notification)]
    /\ UNCHANGED <<grafana_endpoint, backend, backend_lock, nsess, pc, th,
                   result, ncalls, faulted, frameVars, routerVars>>

\* the child writes bytes that are no frame (no Content-Length, a body that is
\* not JSON)
ChildGarbage(s) ==
    /\ s <= nsess
    /\ session[s].alive
    /\ Reading(s)
    /\ nstray < MaxStray
    /\ nstray' = nstray + 1
    /\ session' = [session EXCEPT ![s].out = Append(@, BadFrame)]
    /\ UNCHANGED <<grafana_endpoint, backend, backend_lock, nsess, pc, th,
                   result, ncalls, faulted, frameVars, routerVars>>

\* the child of a session the program still refers to exits by itself
ChildExit(s) ==
    /\ s <= nsess
    /\ session[s].alive
    /\ s = backend \/ \E u \in Threads : Holds(u, s)
    /\ session' = [session EXCEPT ![s].alive = FALSE]
    /\ UNCHANGED <<grafana_endpoint, backend, backend_lock, nsess, pc, th,
                   result, ncalls, nstray, faulted, frameVars, routerVars>>

Init ==
    /\ FrameStart
    /\ SessStart
    /\ RouterStart
    /\ PureStart
    /\ grafana_endpoint \in BOOLEAN
    /\ env = DefaultFlags

Next ==
    \/ \E t \in Threads :
          \/ \E w \in BOOLEAN : GetBackendCached(t, w)
          \/ \E w \in BOOLEAN : GetBackendNoEndpoint(t, w)
          \/ \E w \in BOOLEAN : Launch(t, w)
          \/ \E w \in BOOLEAN : LaunchFails(t, w)
          \/ Alloc1(t)
          \/ Alloc2(t)
          \/ Alloc3(t)
          \/ SendRequest(t)
          \/ SendFails(t)
          \/ ReadTimeout(t)
          \/ ReadEof(t)
          \/ ReadGarbage(t)
          \/ ReadOther(t)
          \/ ReadInitResponse(t)
          \/ ReadListResponse(t)
          \/ ReadToolResponse(t)
          \/ HandleReset(t)
    \/ \E s \in Sessions :
          \/ \E p \in DOMAIN session[s].wire, err \in BOOLEAN : ChildReply(s, p, err)
          \/ ChildNotify(s)
          \/ ChildGarbage(s)
          \/ ChildExit(s)

Spec == Init /\ [][Next]_vars

\* a session whose handshake is done: initialize, the two notifications and
\* tools/list are on its stdin, both requests are answered and read
Established ==
    [NewSession EXCEPT !.next_id = 3, !.wire = <<1, 0, 0, 2>>,
                       !.answered = {1, 4}]

\* The state Spec reaches once the first call has built the session and is
\* about to send its tools/call (GRAFANA_ENDPOINT set); ncalls counts the
\* calls entered from here on.
StaleInit ==
    /\ FrameStart
    /\ RouterStart
    /\ PureStart
    /\ grafana_endpoint = TRUE
    /\ env = DefaultFlags
    /\ backend = 1
    /\ backend_lock = "free"
    /\ nsess = 1
    /\ session = [s \in Sessions |-> IF s = 1 THEN Established ELSE NotLaunched]
    /\ pc = [t \in Threads |-> IF t = "t1" THEN "alloc1" ELSE "idle"]
    /\ th = [t \in Threads |->
               IF t = "t1"
               THEN [NoLocals EXCEPT !.sess = 1, !.phase = "tool", !.req_id = 2,
                                     !.mypos = 4, !.resp = Response(2, 4, FALSE),
                                     !.heard = TRUE]
               ELSE NoLocals]
    /\ result = [t \in Threads |-> NoResult]
    /\ ncalls = 0
    /\ nstray = 0
    /\ faulted = {}

\* the steps of Spec with GRAFANA_ENDPOINT set and no warm-up left to run; a
\* child is launched while a session number is left
StaleNext ==
    \/ \E t \in Threads :
          \/ GetBackendCached(t, FALSE)
          \/ nsess < MaxCalls /\ Launch(t, FALSE)
          \/ nsess < MaxCalls /\ LaunchFails(t, FALSE)
          \/ Alloc1(t)
          \/ Alloc2(t)
          \/ Alloc3(t)
          \/ SendRequest(t)
          \/ SendFails(t)
          \/ ReadTimeout(t)
          \/ ReadEof(t)
          \/ ReadGarbage(t)
          \/ ReadOther(t)
          \/ ReadInitResponse(t)
          \/ ReadListResponse(t)
          \/ ReadToolResponse(t)
          \/ HandleReset(t)
    \/ \E s \in Sessions :
          \/ \E p \in DOMAIN session[s].wire, err \in BOOLEAN : ChildReply(s, p, err)
          \/ ChildNotify(s)
          \/ ChildGarbage(s)
          \/ ChildExit(s)

SpecStale == StaleInit /\ [][StaleNext]_vars

----------------------------------------------------------------------------
\* Shared backend session: properties

\* the request identifiers written to a session's child, in order
IdsWritten(s) == SelectSeq(session[s].wire, LAMBDA x : x # 0)

TransportFaults == {"Timeout", "ChannelClosed", "Framing"}

\* C1: every response that request() has handed to a caller carries the
\* caller's identifier and is the child's answer to the request that caller
\* wrote, whatever the interleaving of the callers and the order of the
\* child's replies.
OwnResponseOnly ==
    \A t \in Threads :
        th[t].resp.kind = "resp"
            => (th[t].resp.id = th[t].req_id /\ th[t].resp.re = th[t].mypos)

\* C2: on every session the request identifiers written to the child start at
\* 1 and are strictly increasing (so none is written twice).
IdsStrictlyIncreasing ==
    \A s \in Sessions :
        LET ids == IdsWritten(s)
        IN  /\ ids # <<>> => ids[1] = 1
            /\ \A i, j \in DOMAIN ids : i < j => ids[i] < ids[j]

\* C3: once a call on the shared session has returned a Timeout or
\* ChannelClosed failure, that session is never _backend again, and every
\* later _get_backend returns another session.
FaultedSessionReplaced ==
    /\ [](\A f \in faulted :
             f[2] \in {"Timeout", "ChannelClosed"} => backend # f[1])
    /\ [][\A t \in Threads :
             (pc[t] = "idle" /\ pc'[t] = "alloc1")
                 => \A f \in faulted :
                        f[2] \in {"Timeout", "ChannelClosed"} => th'[t].sess # f[1]]_vars

FaultedSessionReplacedWitness ==
    \E f \in faulted, t \in Threads :
        /\ f[2] \in {"Timeout", "ChannelClosed"}
        /\ th[t].phase = "tool"
        /\ th[t].sess = backend
        /\ backend > f[1]

\* C4: once a call on the shared session has returned a Framing, ChannelClosed
\* or Timeout failure, that session is never _backend again.
TransportFaultInvalidates ==
    \A f \in faulted : f[2] \in TransportFaults => backend # f[1]

RemoteErrorNext(t) ==
    /\ pc[t] = "read"
    /\ th[t].phase = "tool"
    /\ session[th[t].sess].out # <<>>
    /\ Matches(Head(session[th[t].sess].out), th[t].req_id)
    /\ Head(session[th[t].sess].out).err

\* C15: a well-formed tools/call response that carries an error payload is
\* returned to the caller as data (the raw response, no exception), and reading
\* it leaves the shared session as it is: _backend is the same object, the child
\* is neither closed nor killed, so the next _get_backend returns that session.
RemoteErrorIsData ==
    [][\A t \in Threads :
          (RemoteErrorNext(t) /\ pc'[t] # "read" /\ th'[t].fault # "Timeout")
             => /\ pc'[t] = "idle"
                /\ result'[t].kind = "raw"
                /\ result'[t].resp = Head(session[th[t].sess].out)
                /\ backend' = backend
                /\ session'[th[t].sess].alive = session[th[t].sess].alive
                /\ session'[th[t].sess].stdin_closed
                     = session[th[t].sess].stdin_closed]_vars

RemoteErrorIsDataWitness ==
    \E t \in Threads :
        /\ pc[t] = "idle"
        /\ result[t].kind = "raw"
        /\ result[t].resp.err
        /\ backend = result[t].sess
        /\ session[backend].alive
        /\ ~session[backend].stdin_closed

\* the next message on the child's stdout is the response to the request
\* thread t is waiting for
Answered(t) ==
    /\ session[th[t].sess].out # <<>>
    /\ Matches(Head(session[th[t].sess].out), th[t].req_id)

Constructing(t) == pc[t] \notin {"idle", "handler"} /\ th[t].phase \in {"init", "list"}

\* C18: the construction of the session is single-flighted among the callers
\* of _get_backend, the warm-up thread included: at most one thread is inside
\* the constructor, it holds _backend_lock and nothing is cached meanwhile; a
\* child is launched only when nothing is cached and nobody is constructing;
\* and a caller that finds a session cached receives that session and launches
\* nothing.
SingleFlight ==
    /\ [](/\ Cardinality({t \in Threads : Constructing(t)}) <= 1
          /\ \A t \in Threads : Constructing(t) => (backend_lock = t /\ backend = 0))
    /\ [][/\ nsess' # nsess
               => /\ backend = 0
                  /\ \A u \in Threads : ~Constructing(u)
                  /\ nsess' = nsess + 1
          /\ \A t \in Threads :
               (pc[t] = "idle" /\ th'[t] # th[t] /\ backend # 0)
                  => /\ th'[t].sess = backend
                     /\ nsess' = nsess]_vars

SingleFlightWitness ==
    \E t, u \in Threads :
        /\ t # u
        /\ th[t].warm
        /\ th[t].phase = "tool"
        /\ nsess = 1
        /\ backend = 1
        /\ th[t].sess = 1
        /\ th[u].sess = 1
        /\ pc[u] = "read"

\* thread t has written a request to session s and is waiting for its response
Outstanding(t, s) == pc[t] = "read" /\ th[t].sess = s

\* C19: a session has at most one request outstanding: the thread that wrote a
\* request holds the session's lock until request() returns or raises, and
\* while it waits nobody else writes a request or a notification to the child's
\* stdin.
OneOutstandingRequest ==
    /\ [](\A s \in Sessions :
            /\ Cardinality({t \in Threads : Outstanding(t, s)}) <= 1
            /\ \A t \in Threads : Outstanding(t, s) => session[s].lock = t)
    /\ [][\A t \in Threads :
            (pc[t] = "read" /\ pc'[t] = "read")
               => session'[th[t].sess].wire = session[th[t].sess].wire]_vars

OneOutstandingRequestWitness ==
    \E t, u \in Threads :
        /\ t # u
        /\ Outstanding(t, th[t].sess)
        /\ th[t].phase = "tool"
        /\ pc[u] = "lock"
        /\ th[u].sess = th[t].sess

----------------------------------------------------------------------------
\* Tool functions (lines 1388-1960).  A tool function is one step: its
\* arguments and the outcome of every tier it may consult are chosen by the
\* caller and the environment; the function decides which tiers it consults.

\* str(exc)
Msg == "message"

\* an exception that leaves the function
Raised(exc) == [raised |-> exc]

IsRaised(v) == "raised" \in DOMAIN v

\* what a direct HTTP tier (urllib, the managed identity token) ends in: a
\* payload or an exception
HttpOutcomes == {"ok", "HTTPError"}

\* what the backend tier ends in: a JSON-RPC response with a result or with an
\* error member, or one of the exceptions of _get_backend and _call
BackendOutcomes ==
    {"result", "error", "TimeoutError", "RuntimeError", "ValueError",
     "BrokenPipeError", "OSError"}

\* one tier consulted, and how it ended
Tier(name, outcome) == [tier |-> name, outcome |-> outcome]

Succeeded(e) == e.outcome \in {"ok", "result"}

CatchesRuntimeOnly(exc) == exc \in {"TimeoutError", "RuntimeError"}

\* except Exception (lines 976, 1016, 1558, 1578, 1629, 1655, 1693, 1699,
\* 1814, 1959): every outcome above that is an exception derives from it
Catches(exc) == exc \notin {"ok", "result", "error"}

\* resp.raw, lines 959 and 999
Raw(o) ==
    IF o = "result"
    THEN [jsonrpc |-> "2.0", id |-> "id", result |-> "payload"]
    ELSE [jsonrpc |-> "2.0", id |-> "id", error |-> "rpc-error"]

\* _backend_tool_call_safe, lines 956-981
backend_tool_call_safe(o) ==
    IF o \in {"result", "error"} THEN Raw(o)
    ELSE IF o \in {"TimeoutError", "RuntimeError"}
    THEN [ok |-> FALSE, errorType |-> o, error |-> Msg, hint |-> "hint"]
    ELSE IF Catches(o)
    THEN [ok |-> FALSE, errorType |-> o, error |-> Msg]
    ELSE Raised(o)

\* _backend_tool_call_safe_with_timeout, lines 984-1021
backend_tool_call_safe_with_timeout(o) == backend_tool_call_safe(o)

\* {"errorType": type(exc).__name__, "error": str(exc)}
ErrorOf(exc) == [errorType |-> exc, error |-> Msg]

\* {"type": type(exc).__name__, "error": str(exc)}, lines 1698 and 1707
ErrorInfo(exc) == [type |-> exc, error |-> Msg]

\* what a tool function hands back: the value returned (or the exception
\* raised), the tiers consulted in order, and the datasource cache afterwards
Return(v, tiers) == [ret |-> v, tried |-> tiers, cache |-> datasource_cache_value]

CacheableAlways(v) == ~IsRaised(v)

\* line 1445: isinstance(out, dict) and "error" not in out
Cacheable(v) == ~IsRaised(v) /\ "error" \notin DOMAIN v

ReturnAndCache(v, tiers) ==
    [ret |-> v, tried |-> tiers,
     cache |-> IF Cacheable(v) THEN v ELSE datasource_cache_value]

\* lines 1420-1436
FallbackDatasources ==
    (IF env.LOKI_ENDPOINT THEN {"loki"} ELSE {})
        \cup (IF env.AMW_QUERY_ENDPOINT THEN {"prometheus"} ELSE {})

\* amgmcp_datasource_list, lines 1388-1447; fresh: the cached value is within
\* its time to live (_cached_datasource_list, lines 1035-1044)
datasource_list(fresh, o) ==
    LET out == backend_tool_call_safe(o)
        stalled == /\ ~IsRaised(out)
                   /\ "ok" \in DOMAIN out
                   /\ out.ok = FALSE
                   /\ out.errorType = "TimeoutError"
    IN  IF ~IsNone(datasource_cache_value) /\ fresh
        THEN Return(datasource_cache_value, <<Tier("cache", "ok")>>)
        ELSE IF env.LOKI_ENDPOINT /\ env.PREFER_LOKI_DIRECT_DATASOURCE_LIST
        THEN ReturnAndCache([ok |-> TRUE, source |-> "loki-direct",
                             datasources |-> {"loki"}],
                            <<Tier("loki-direct", "ok")>>)
        ELSE IF stalled /\ FallbackDatasources # {}
        THEN ReturnAndCache([ok |-> TRUE, source |-> "direct-fallback",
                             datasources |-> FallbackDatasources],
                            <<Tier("backend", o), Tier("direct-fallback", "ok")>>)
        ELSE ReturnAndCache(out, <<Tier("backend", o)>>)

prometheus_failed_without_amw(proxy_err, amw_err, b) ==
    [ok |-> FALSE, source |-> "prometheus", errorType |-> "RuntimeError",
     error |-> Msg, grafanaProxy |-> proxy_err, backend |-> b, hint |-> "hint"]

\* amgmcp_query_datasource, lines 1593-1602: every Prometheus strategy failed
prometheus_failed(proxy_err, amw_err, b) ==
    [ok |-> FALSE, source |-> "prometheus", errorType |-> "RuntimeError",
     error |-> Msg, grafanaProxy |-> proxy_err, amw |-> amw_err,
     backend |-> b, hint |-> "hint"]

\* amgmcp_query_datasource, lines 1521-1602: the Prometheus chain
BackendOptInAlways == TRUE

\* line 1582: _env_bool("ENABLE_BACKEND_PROMETHEUS", default=False)
BackendOptIn == env.ENABLE_BACKEND_PROMETHEUS

query_prometheus(valid, uid, proxy, amw, o) ==
    LET t1 == IF uid THEN <<Tier("grafana-datasource-proxy", proxy)>> ELSE <<>>
        proxy_err == IF uid THEN ErrorOf(proxy) ELSE None
        t2 == IF env.AMW_QUERY_ENDPOINT
              THEN t1 \o <<Tier("amw-direct", amw)>> ELSE t1
        amw_err == IF env.AMW_QUERY_ENDPOINT THEN ErrorOf(amw) ELSE None
        backend_resp == backend_tool_call_safe_with_timeout(o)
        t3 == t2 \o <<Tier("backend", o)>>
        failed(b, tiers) ==
            Return(prometheus_failed(proxy_err, amw_err, b), tiers)
    IN  IF valid # "ok"
        THEN Return([ok |-> FALSE, source |-> "prometheus",
                     errorType |-> "ValueError", error |-> Msg], <<>>)
        ELSE IF uid /\ proxy = "ok"
        THEN Return([ok |-> TRUE, source |-> "grafana-datasource-proxy",
                     datasourceUid |-> "uid", result |-> "payload"], t1)
        ELSE IF uid /\ ~Catches(proxy)
        THEN Return(Raised(proxy), t1)
        ELSE IF env.AMW_QUERY_ENDPOINT /\ amw = "ok"
        THEN Return([ok |-> TRUE, source |-> "amw-direct",
                     result |-> "payload", grafanaProxy |-> proxy_err], t2)
        ELSE IF env.AMW_QUERY_ENDPOINT /\ ~Catches(amw)
        THEN Return(Raised(amw), t2)
        ELSE IF ~BackendOptIn
        THEN failed(None, t2)
        ELSE IF IsRaised(backend_resp) \/ "error" \notin DOMAIN backend_resp
        THEN Return(backend_resp, t3)
        ELSE failed(backend_resp, t3)

\* amgmcp_query_datasource, lines 1605-1630: Loki, direct
query_loki(valid, loki) ==
    IF valid # "ok"
    THEN Return([ok |-> FALSE, source |-> "loki-direct",
                 errorType |-> "ValueError", error |-> Msg], <<>>)
    ELSE IF loki = "ok"
    THEN Return([ok |-> TRUE, source |-> "loki-direct", result |-> "payload"],
                <<Tier("loki-direct", loki)>>)
    ELSE IF Catches(loki)
    THEN Return([ok |-> FALSE, source |-> "loki-direct", errorType |-> loki,
                 error |-> Msg], <<Tier("loki-direct", loki)>>)
    ELSE Return(Raised(loki), <<Tier("loki-direct", loki)>>)

\* A datasourceName is a sequence of characters.  The names a caller may give:
\* none or the empty one, Loki and Prometheus names in several spellings, a
\* name that is neither, and a name that holds both words
Labels ==
    {<<>>,
     <<"L", "o", "k", "i">>,
     <<" ", "L", "O", "K", "I", " ">>,
     <<"m", "y", "-", "l", "o", "k", "i">>,
     <<"P", "r", "o", "m", "e", "t", "h", "e", "u", "s">>,
     <<"p", "r", "o", "m", " ", "(", "a", ")">>,
     <<"P", "r", "o", "m">>,
     <<"T", "e", "m", "p", "o">>,
     <<"l", "o", "k", "i", "-", "p", "r", "o", "m", "e", "t", "h", "e", "u", "s">>}

\* str.lower, on the letters the names are written with
Lower(c) ==
    CASE c = "L" -> "l" [] c = "O" -> "o" [] c = "K" -> "k" [] c = "I" -> "i"
      [] c = "P" -> "p" [] c = "R" -> "r" [] c = "M" -> "m" [] c = "T" -> "t"
      [] OTHER -> c

lower(name) == [i \in 1..Len(name) |-> Lower(name[i])]

\* str.strip
RECURSIVE lstrip(_)
lstrip(name) ==
    IF name # <<>> /\ Head(name) = " " THEN lstrip(Tail(name)) ELSE name

RECURSIVE rstrip(_)
rstrip(name) ==
    IF name # <<>> /\ name[Len(name)] = " "
    THEN rstrip(SubSeq(name, 1, Len(name) - 1)) ELSE name

strip(name) == rstrip(lstrip(name))

\* `pattern in name`
Contains(name, pattern) ==
    \E i \in 1..(Len(name) - Len(pattern) + 1) :
        SubSeq(name, i, i + Len(pattern) - 1) = pattern

\* name.startswith(pattern)
StartsWith(name, pattern) ==
    Len(name) >= Len(pattern) /\ SubSeq(name, 1, Len(pattern)) = pattern

\* _looks_like_prometheus_datasource, lines 205-209
looks_like_prometheus_datasource(name) ==
    /\ name # <<>>
    /\ \/ Contains(lower(strip(name)), <<"p", "r", "o", "m", "e", "t", "h", "e", "u", "s">>)
       \/ StartsWith(lower(strip(name)), <<"p", "r", "o", "m", " ", "(">>)
       \/ StartsWith(lower(strip(name)), <<"p", "r", "o", "m", "e", "t", "h", "e", "u", "s", " ", "(">>)

\* _looks_like_loki_datasource, lines 416-419
looks_like_loki_datasource(name) ==
    name # <<>> /\ Contains(lower(strip(name)), <<"l", "o", "k", "i">>)

\* what the two tests say of each name, worked out once
LooksLikePrometheus == [name \in Labels |-> looks_like_prometheus_datasource(name)]

LooksLikeLoki == [name \in Labels |-> looks_like_loki_datasource(name)]

\* amgmcp_query_datasource, lines 1521 and 1605: the branch a name takes
Branch(ds_name) ==
    IF LooksLikePrometheus[ds_name] THEN "prometheus"
    ELSE IF LooksLikeLoki[ds_name] /\ env.LOKI_ENDPOINT THEN "loki"
    ELSE "backend"

\* amgmcp_query_datasource, lines 1450-1632; ds_name is datasourceName, valid
\* what the argument checks find, uid whether the_uid is set
query_datasource(ds_name, valid, uid, proxy, amw, loki, o) ==
    IF Branch(ds_name) = "prometheus"
    THEN query_prometheus(valid, uid, proxy, amw, o)
    ELSE IF Branch(ds_name) = "loki"
    THEN query_loki(valid, loki)
    ELSE Return(backend_tool_call_safe(o), <<Tier("backend", o)>>)

\* amgmcp_dashboard_search, lines 1635-1669
dashboard_search(direct, o) ==
    LET backend_resp == backend_tool_call_safe(o)
        tiers == <<Tier("grafana-direct", direct), Tier("backend", o)>>
    IN  IF ~env.ENABLE_GRAFANA_DIRECT_SEARCH
        THEN Return([ok |-> TRUE, source |-> "fallback", result |-> "payload"],
                    <<Tier("fallback", "ok")>>)
        ELSE IF direct = "ok"
        THEN Return([ok |-> TRUE, source |-> "grafana-direct",
                     result |-> "payload"], <<Tier("grafana-direct", direct)>>)
        ELSE IF ~Catches(direct)
        THEN Return(Raised(direct), <<Tier("grafana-direct", direct)>>)
        ELSE IF IsRaised(backend_resp)
        THEN Return(backend_resp, tiers)
        ELSE Return([ok |-> FALSE, source |-> "grafana-direct",
                     errorType |-> direct, error |-> Msg,
                     backend |-> backend_resp], tiers)

\* amgmcp_get_dashboard_summary, lines 1672-1708
get_dashboard_summary(hasuid, direct, template) ==
    LET t1 == <<Tier("grafana-direct", direct)>>
        t2 == t1 \o <<Tier("template", template)>>
    IN  IF ~hasuid
        THEN Return([ok |-> FALSE, source |-> "grafana-direct",
                     errorType |-> "ValueError", error |-> Msg], <<>>)
        ELSE IF direct = "ok"
        THEN Return([ok |-> TRUE, source |-> "grafana-direct",
                     dashboard |-> "payload", panels |-> "payload"], t1)
        ELSE IF ~Catches(direct)
        THEN Return(Raised(direct), t1)
        ELSE IF template = "ok"
        THEN Return([ok |-> TRUE, source |-> "template",
                     dashboard |-> "payload", panels |-> "payload",
                     grafanaError |-> ErrorInfo(direct)], t2)
        ELSE IF ~Catches(template)
        THEN Return(Raised(template), t2)
        ELSE Return([ok |-> FALSE, source |-> "grafana-direct",
                     errorType |-> direct, error |-> Msg,
                     dashboard |-> "uid", panels |-> <<>>,
                     fallbackError |-> ErrorInfo(template)], t2)

\* amgmcp_query_resource_log, amgmcp_query_resource_graph,
\* amgmcp_query_azure_subscriptions, lines 1711-1759
azure_tool(o) == Return(backend_tool_call_safe(o), <<Tier("backend", o)>>)

\* amgmcp_image_render, lines 1762-1848
image_render(direct, o) ==
    LET t1 == <<Tier("grafana-direct", direct)>>
        backend_resp == backend_tool_call_safe(o)
        failure == [ok |-> FALSE, source |-> "grafana-direct",
                    errorType |-> direct, error |-> Msg, hint |-> "hint"]
    IN  IF direct = "ok"
        THEN Return([ok |-> TRUE, source |-> "grafana-direct",
                     contentType |-> "image/png", imageBase64 |-> "payload",
                     bytes |-> "n"], t1)
        ELSE IF ~Catches(direct)
        THEN Return(Raised(direct), t1)
        ELSE IF env.ENABLE_PLACEHOLDER_IMAGE_RENDER
        THEN Return([ok |-> TRUE, source |-> "placeholder",
                     contentType |-> "image/png", imageBase64 |-> "placeholder",
                     bytes |-> "n", warning |-> ErrorOf(direct)],
                    t1 \o <<Tier("placeholder", "ok")>>)
        ELSE IF ~env.ENABLE_AMG_MCP_RENDER_FALLBACK
        THEN Return(failure, t1)
        ELSE IF IsRaised(backend_resp)
        THEN Return(backend_resp, t1 \o <<Tier("backend", o)>>)
        ELSE Return([ok |-> FALSE, source |-> "grafana-direct",
                     errorType |-> direct, error |-> Msg, hint |-> "hint",
                     backend |-> backend_resp],
                    t1 \o <<Tier("backend", o)>>)

\* amgmcp_get_panel_data, lines 1851-1960; valid is what the argument checks
\* find: "uid", "title", "vars" (lines 1881-1900), "ok", "range", "step"
\* (lines 1916-1922)
get_panel_data(valid, template, loki) ==
    LET t1 == <<Tier("template", template)>>
        t2 == t1 \o <<Tier("loki-direct", loki)>>
        exc == IF template # "ok" THEN template ELSE loki
        tiers == IF template # "ok" THEN t1 ELSE t2
    IN  IF valid \in {"uid", "title", "vars"}
        THEN Return([ok |-> FALSE, source |-> "template",
                     errorType |-> "ValueError", error |-> Msg], <<>>)
        ELSE IF ~env.LOKI_ENDPOINT
        THEN Return([ok |-> FALSE, source |-> "loki-direct",
                     errorType |-> "RuntimeError", error |-> Msg], <<>>)
        ELSE IF valid \in {"range", "step"}
        THEN Return([ok |-> FALSE, source |-> "loki-direct",
                     errorType |-> "ValueError", error |-> Msg], <<>>)
        ELSE IF template = "ok" /\ loki = "ok"
        THEN Return([ok |-> TRUE, source |-> "loki-direct",
                     dashboardUid |-> "uid", panel |-> "payload",
                     query |-> "payload", result |-> "payload"], t2)
        ELSE IF Catches(exc)
        THEN Return([ok |-> FALSE, source |-> "template", errorType |-> exc,
                     error |-> Msg], tiers)
        ELSE Return(Raised(exc), tiers)

\* the environment variables the tool functions read
Flags ==
    [LOKI_ENDPOINT : BOOLEAN,
     AMW_QUERY_ENDPOINT : BOOLEAN,
     PREFER_LOKI_DIRECT_DATASOURCE_LIST : BOOLEAN,
     ENABLE_BACKEND_PROMETHEUS : BOOLEAN,
     ENABLE_GRAFANA_DIRECT_SEARCH : BOOLEAN,
     ENABLE_PLACEHOLDER_IMAGE_RENDER : BOOLEAN,
     ENABLE_AMG_MCP_RENDER_FALLBACK : BOOLEAN,
     DISABLE_AMGMCP_AZURE_TOOLS : BOOLEAN]

\* the variables of a call in progress, which a tool function run as one step
\* leaves alone
callVars == <<grafana_endpoint, backend_lock, pc, th, result, ncalls, nstray,
              faulted>>

\* a child of the proxy that is running; the tool functions read none of the
\* other fields of its session
RunningChild == [NotLaunched EXCEPT !.alive = TRUE]

\* _backend_tool_call_safe consulted: _get_backend launches a child when
\* _backend is None and GRAFANA_ENDPOINT is set, unless Popen raises
Launches(o) == backend = 0 /\ grafana_endpoint /\ o # "OSError"

\* the outcomes _backend_tool_call_safe can end in from the current _backend;
\* ph is where an exception is raised: "init" inside AmgMcpBackend.__init__,
\* "tool" inside tool_call
Feasible(o, ph) ==
    IF backend # 0 THEN o # "OSError" /\ ph = "tool"
    ELSE IF ~grafana_endpoint THEN o = "RuntimeError" /\ ph = "init"
    ELSE /\ o = "OSError" => ph = "init"
         /\ o \in {"result", "error"} => ph = "tool"
         /\ o # "OSError" => nsess < MaxCalls

\* _backend after _get_backend returned or raised
Cached(o, ph) ==
    IF Launches(o) THEN (IF ph = "tool" THEN nsess + 1 ELSE 0) ELSE backend

\* a tier consulted the shared session
ConsultedOrFailed(tiers) == \E i \in DOMAIN tiers : ~Succeeded(tiers[i])

Consulted(tiers) == \E i \in DOMAIN tiers : tiers[i].tier = "backend"

\* what one run of _backend_tool_call_safe leaves of _backend and of the
\* children: a launch, the handshake, tools/call, and _reset_backend on
\* TimeoutError and RuntimeError
BackendAfter(o, ph) ==
    LET launched == IF Launches(o)
                    THEN [session EXCEPT ![nsess + 1] = RunningChild]
                    ELSE session
        closed == IF Resets(o) /\ Cached(o, ph) # 0
                  THEN [launched EXCEPT ![Cached(o, ph)].stdin_closed = TRUE,
                                        ![Cached(o, ph)].alive = FALSE]
                  ELSE launched
    IN [backend |-> IF Resets(o) THEN 0 ELSE Cached(o, ph),
        nsess |-> IF Launches(o) THEN nsess + 1 ELSE nsess,
        session |-> closed]

Serve(name, r, o, ph) ==
    /\ IF Consulted(r.tried) THEN Feasible(o, ph)
       ELSE o = "result" /\ ph = "tool"
    /\ tool' = name
    /\ ret' = r.ret
    /\ tried' = r.tried
    /\ datasource_cache_value' = r.cache
    /\ LET after == IF Consulted(r.tried)
                    THEN BackendAfter(o, ph)
                    ELSE [backend |-> backend, nsess |-> nsess,
                          session |-> session]
       IN /\ backend' = after.backend
          /\ nsess' = after.nsess
          /\ session' = after.session

Phases == {"init", "tool"}

amgmcp_datasource_list ==
    /\ tool = "none"
    /\ \E fresh \in BOOLEAN, o \in BackendOutcomes, ph \in Phases :
            /\ Serve("amgmcp_datasource_list", datasource_list(fresh, o), o, ph)
            /\ UNCHANGED <<env, asked, frameVars, callVars, pureVars>>

amgmcp_query_datasource ==
    /\ tool = "none"
    /\ \E ds_name \in Labels :
         LET branch == Branch(ds_name)
         IN  \E valid \in {"ok", "query", "range"}, uid \in BOOLEAN,
                proxy \in HttpOutcomes, amw \in HttpOutcomes,
                loki \in HttpOutcomes, o \in BackendOutcomes, ph \in Phases :
                 \* the inputs the chosen branch does not read are held at
                 \* one value
                 /\ branch # "prometheus" => (~uid /\ proxy = "ok" /\ amw = "ok")
                 /\ branch # "loki" => loki = "ok"
                 /\ branch = "backend" => valid = "ok"
                 /\ Serve("amgmcp_query_datasource",
                          query_datasource(ds_name, valid, uid, proxy, amw, loki, o),
                          o, ph)
                 /\ asked' = ds_name
                 /\ UNCHANGED <<env, frameVars, callVars, pureVars>>

amgmcp_dashboard_search ==
    /\ tool = "none"
    /\ \E direct \in HttpOutcomes, o \in BackendOutcomes, ph \in Phases :
            /\ Serve("amgmcp_dashboard_search", dashboard_search(direct, o), o, ph)
            /\ UNCHANGED <<env, asked, frameVars, callVars, pureVars>>

amgmcp_get_dashboard_summary ==
    /\ tool = "none"
    /\ \E hasuid \in BOOLEAN, direct \in HttpOutcomes,
           template \in {"ok", "KeyError"} :
            /\ Serve("amgmcp_get_dashboard_summary",
                     get_dashboard_summary(hasuid, direct, template),
                     "result", "tool")
            /\ UNCHANGED <<env, asked, frameVars, callVars, pureVars>>

amgmcp_query_resource_log ==
    /\ tool = "none"
    /\ ~env.DISABLE_AMGMCP_AZURE_TOOLS
    /\ \E name \in {"amgmcp_query_resource_log", "amgmcp_query_resource_graph",
                    "amgmcp_query_azure_subscriptions"},
          o \in BackendOutcomes, ph \in Phases :
           Serve(name, azure_tool(o), o, ph)
    /\ UNCHANGED <<env, asked, frameVars, callVars, pureVars>>

amgmcp_image_render ==
    /\ tool = "none"
    /\ \E direct \in HttpOutcomes, o \in BackendOutcomes, ph \in Phases :
            /\ Serve("amgmcp_image_render", image_render(direct, o), o, ph)
            /\ UNCHANGED <<env, asked, frameVars, callVars, pureVars>>

amgmcp_get_panel_data ==
    /\ tool = "none"
    /\ \E valid \in {"uid", "title", "vars", "ok", "range", "step"},
           template \in {"ok", "KeyError"}, loki \in HttpOutcomes :
            /\ Serve("amgmcp_get_panel_data", get_panel_data(valid, template, loki),
                     "result", "tool")
            /\ UNCHANGED <<env, asked, frameVars, callVars, pureVars>>

\* the HTTP response of the call is sent; the next request is read
Respond ==
    /\ tool # "none"
    /\ tool' = "none"
    /\ ret' = None
    /\ tried' = <<>>
    /\ asked' = None
    /\ UNCHANGED <<env, datasource_cache_value, frameVars, sessVars, pureVars>>

RouterInit ==
    /\ FrameStart
    /\ SessStart
    /\ RouterStart
    /\ PureStart
    /\ grafana_endpoint = TRUE
    /\ env \in Flags

RouterNext ==
    \/ amgmcp_datasource_list
    \/ amgmcp_query_datasource
    \/ amgmcp_dashboard_search
    \/ amgmcp_get_dashboard_summary
    \/ amgmcp_query_resource_log
    \/ amgmcp_image_render
    \/ amgmcp_get_panel_data
    \/ Respond

SpecRouter == RouterInit /\ [][RouterNext]_vars

----------------------------------------------------------------------------
\* Capability filtering (lines 296-308, 343-356, 366-377, 991-999).  The
\* registry is built once, from the tools/list response of the handshake; a
\* tool call forwards its arguments through it.

MaxTools == 2

\* the argument names and values of the calls, and the tool names they carry
ArgKeys == {"query", "limit"}

ArgValues == {"v1", "v2"}

ToolNames == {"amgmcp_query_datasource", "amgmcp_image_render", "other_tool"}

\* an entry of result.tools: its name and, when inputSchema.properties is a
\* dict, the keys of that dict
ToolEntries ==
    {e \in [name : ToolNames, has_properties : BOOLEAN, properties : SUBSET ArgKeys] :
        ~e.has_properties => e.properties = {}}

ToolLists == UNION {[1..n -> ToolEntries] : n \in 0..MaxTools}

\* an argument map
ArgumentMaps == UNION {[D -> ArgValues] : D \in SUBSET ArgKeys}

\* _schema_properties, lines 296-308: the properties of the first entry with
\* that name that has any; set() when there is none or tools is not a list
RECURSIVE schema_properties(_, _)
schema_properties(tools, tool_name) ==
    IF tools = <<>> THEN {}
    ELSE IF Head(tools).name = tool_name /\ Head(tools).has_properties
    THEN Head(tools).properties
    ELSE schema_properties(Tail(tools), tool_name)

\* __init__, lines 343-356
Registry(is_list, tools) ==
    [q \in RegisteredTools |->
        schema_properties(IF is_list THEN tools ELSE <<>>, q)]

\* self._tool_supported_keys.get(name), lines 367 and 993
supported_keys(name) ==
    IF name \in DOMAIN tool_supported_keys THEN tool_supported_keys[name] ELSE {}

FiltersAlways(name) == TRUE

\* `if supported_keys:`, lines 368 and 994: None and the empty set are falsy
Filters(name) == supported_keys(name) # {}

\* lines 369 and 995
Restricted(arguments, keys) ==
    [k \in DOMAIN arguments \cap keys |-> arguments[k]]

\* the arguments member of the tools/call params
Forward(name, arguments) ==
    IF Filters(name) THEN Restricted(arguments, supported_keys(name))
    ELSE arguments

\* AmgMcpBackend.tool_call, lines 366-377, up to the request it writes
tool_call ==
    \E name \in RegisteredTools \cup {"other_tool"}, arguments \in ArgumentMaps :
        /\ call' = [name |-> name, arguments |-> arguments, via |-> "tool_call"]
        /\ forwarded' = [name |-> name, arguments |-> Forward(name, arguments)]
        /\ UNCHANGED <<tool_supported_keys, env, datasource_cache_value, tool,
                       ret, tried, asked, frameVars, sessVars, notFilter>>

\* _backend_tool_call_safe_with_timeout, lines 991-999, up to the request
tool_call_with_timeout ==
    \E name \in RegisteredTools \cup {"other_tool"}, arguments \in ArgumentMaps :
        /\ call' = [name |-> name, arguments |-> arguments, via |-> "with_timeout"]
        /\ forwarded' = [name |-> name, arguments |-> Forward(name, arguments)]
        /\ UNCHANGED <<tool_supported_keys, env, datasource_cache_value, tool,
                       ret, tried, asked, frameVars, sessVars, notFilter>>

FilterInit ==
    /\ FrameStart
    /\ SessStart
    /\ RouterStart
    /\ ReaderStart
    /\ TokenStart
    /\ grafana_endpoint = TRUE
    /\ env = DefaultFlags
    /\ CacheStart
    /\ SendStart
    /\ BudgetStart
    /\ \E is_list \in BOOLEAN, tools \in ToolLists :
          /\ ~is_list => tools = <<>>
          /\ tool_supported_keys = Registry(is_list, tools)
    /\ call = None
    /\ forwarded = None

FilterNext ==
    \/ tool_call
    \/ tool_call_with_timeout

SpecFilter == FilterInit /\ [][FilterNext]_vars

----------------------------------------------------------------------------
\* The datasource list cache (lines 1022-1051).  Time is in whole seconds; the
\* clock moves between the instants around a store and around its expiry.

\* line 1032: the default time to live
DefaultTtl == 300

MaxSkew == 2

\* the instants the clock visits
Instants ==
    {t \in 0..(DefaultTtl + 2 * MaxSkew) :
        t <= 2 * MaxSkew \/ t >= DefaultTtl - MaxSkew}

\* what DATASOURCE_LIST_CACHE_TTL_S may hold: nothing, text that is no
\* integer, an integer
TtlSettings ==
    {[kind |-> "unset", value |-> 0], [kind |-> "junk", value |-> 0]}
        \cup {[kind |-> "int", value |-> n] : n \in {-1, 0, 1, DefaultTtl}}

\* the maps the cache is given
CachedMaps ==
    {[ok |-> TRUE, source |-> "loki-direct", datasources |-> {"loki"}],
     [ok |-> TRUE, source |-> "direct-fallback", datasources |-> {"prometheus"}]}

\* _env_int, lines 186-193
env_int(raw, default) == IF raw.kind = "int" THEN raw.value ELSE default

\* _datasource_cache_ttl_s, lines 1029-1032
datasource_cache_ttl_s == env_int(cache_ttl_raw, DefaultTtl)

DisabledBelowZero(ttl) == ttl < 0

\* line 1037
Disabled(ttl) == ttl <= 0

\* line 1042
Expired(ttl) == now - datasource_cache_at > ttl

\* _cached_datasource_list, lines 1035-1044
cached_datasource_list_value ==
    IF Disabled(datasource_cache_ttl_s) THEN None
    ELSE IF IsNone(datasource_cache_value) THEN None
    ELSE IF Expired(datasource_cache_ttl_s) THEN None
    ELSE datasource_cache_value

cached_datasource_list ==
    /\ looked' = [time |-> now, stored |-> datasource_cache_value,
                  at |-> datasource_cache_at, ttl |-> datasource_cache_ttl_s,
                  result |-> cached_datasource_list_value]
    /\ UNCHANGED <<datasource_cache_value, datasource_cache_at, now,
                   cache_ttl_raw, datasource_cache_lock, env, tool, ret, tried, asked, notCache, frameVars,
                   sessVars>>

\* _set_cached_datasource_list, lines 1047-1051
set_cached_datasource_list ==
    \E value \in CachedMaps :
        /\ datasource_cache_value' = value
        /\ datasource_cache_at' = now
        /\ UNCHANGED <<now, cache_ttl_raw, datasource_cache_lock, looked, env, tool, ret, tried,
                       asked, notCache, frameVars, sessVars>>

\* time passes
Tick ==
    \E t \in Instants :
        /\ t > now
        /\ now' = t
        /\ UNCHANGED <<datasource_cache_value, datasource_cache_at,
                       cache_ttl_raw, datasource_cache_lock, looked, env, tool, ret, tried, asked,
                       notCache, frameVars, sessVars>>

CacheInit ==
    /\ FrameStart
    /\ SessStart
    /\ RouterStart
    /\ ReaderStart
    /\ TokenStart
    /\ FilterStart
    /\ SendStart
    /\ BudgetStart
    /\ grafana_endpoint = TRUE
    /\ env = DefaultFlags
    /\ datasource_cache_at = 0
    /\ datasource_cache_lock = "free"
    /\ now \in {t \in Instants : t <= MaxSkew}
    /\ cache_ttl_raw \in TtlSettings
    /\ looked = None

CacheNext ==
    \/ cached_datasource_list
    \/ set_cached_datasource_list
    \/ Tick

SpecCache == CacheInit /\ [][CacheNext]_vars

\* amgmcp_datasource_list, lines 1388-1447, against the clock: the lookup of
\* line 1391 decides whether the tiers are consulted, and what line 1401 or
\* line 1446 stores is stored with the time
datasource_list_now ==
    /\ tool = "none"
    /\ \E o \in BackendOutcomes, ph \in Phases :
         LET r == datasource_list(~IsNone(cached_datasource_list_value), o)
             stored == r.tried[1].tier # "cache" /\ Cacheable(r.ret)
         IN  /\ Serve("amgmcp_datasource_list", r, o, ph)
             /\ datasource_cache_at' = IF stored THEN now ELSE datasource_cache_at
             /\ looked' = [time |-> now, stored |-> datasource_cache_value,
                           at |-> datasource_cache_at,
                           ttl |-> datasource_cache_ttl_s,
                           result |-> cached_datasource_list_value]
    /\ UNCHANGED <<now, cache_ttl_raw, datasource_cache_lock, env, asked, notCache, frameVars, callVars>>

\* the response is sent
RespondList ==
    /\ tool # "none"
    /\ tool' = "none"
    /\ ret' = None
    /\ tried' = <<>>
    /\ UNCHANGED <<datasource_cache_value, datasource_cache_at, now,
                   cache_ttl_raw, datasource_cache_lock, looked, env, asked, notCache, frameVars,
                   sessVars>>

\* time passes between two calls
TickList ==
    /\ tool = "none"
    /\ Tick

ListInit ==
    /\ FrameStart
    /\ SessStart
    /\ RouterStart
    /\ ReaderStart
    /\ TokenStart
    /\ FilterStart
    /\ SendStart
    /\ BudgetStart
    /\ grafana_endpoint = TRUE
    /\ \E loki \in BOOLEAN, amw \in BOOLEAN, prefer \in BOOLEAN :
         env = [DefaultFlags EXCEPT !.LOKI_ENDPOINT = loki,
                                    !.AMW_QUERY_ENDPOINT = amw,
                                    !.PREFER_LOKI_DIRECT_DATASOURCE_LIST = prefer]
    /\ datasource_cache_at = 0
    /\ datasource_cache_lock = "free"
    /\ now = 0
    /\ cache_ttl_raw \in {raw \in TtlSettings : raw.kind = "unset" \/ raw.value \in {0, 1}}
    /\ looked = None

ListNext ==
    \/ datasource_list_now
    \/ RespondList
    \/ TickList

SpecList == ListInit /\ [][ListNext]_vars

----------------------------------------------------------------------------
\* Remote-write proxy (src/prometheus_remote_write_proxy/server.py): the
\* token cache of _get_managed_identity_token, lines 22-80.  Every request is
\* handled in a thread of its own (ThreadingHTTPServer, line 159) and the
\* cache has no lock: a step is one read or one write of _token_cache.  A
\* token is the number under which the identity endpoint issued it,
\* issued[k] the time it expires.

\* line 48: "# Cache with a 2-minute safety margin."
SafetyMargin == 120

\* the time a new token is good for
TokenLifetimes == {3 * ClockStep, 5 * ClockStep}

tokenRest == <<frameVars, sessVars, env, datasource_cache_value, tool, ret,
               tried, asked, filterVars, datasource_cache_at,
               datasource_cache_lock, cache_ttl_raw, looked, sendVars,
               budgetVars, readerVars>>

\* _forward_to_ingestion calls _get_managed_identity_token (line 87); line 48
\* reads _token_cache["access_token"]
ReadCachedToken(h) ==
    /\ handler[h].at = "idle"
    /\ handler' = [handler EXCEPT ![h] =
                     [NoRequest EXCEPT
                        !.at = IF token_cache.access_token # 0
                               THEN "read_expiry" ELSE "fetching"]]
    /\ UNCHANGED <<token_cache, issued, served, now, tokenRest>>

\* line 48: _token_cache["expires_at"] > (_now() + 120)
StillGood(expires_at, time) == expires_at > time + SafetyMargin

ReadCachedExpiry(h) ==
    /\ handler[h].at = "read_expiry"
    /\ handler' = [handler EXCEPT ![h] =
                     [@ EXCEPT !.at = IF StillGood(token_cache.expires_at, now)
                                      THEN "return_cached" ELSE "fetching",
                               !.checked = token_cache.expires_at,
                               !.checked_at = now]]
    /\ UNCHANGED <<token_cache, issued, served, now, tokenRest>>

\* line 49: return _token_cache["access_token"]
ReturnCached(h) ==
    /\ handler[h].at = "return_cached"
    /\ served' = [token |-> token_cache.access_token, cached |-> TRUE,
                  checked |-> handler[h].checked, at |-> handler[h].checked_at]
    /\ handler' = [handler EXCEPT ![h] = NoRequest]
    /\ UNCHANGED <<token_cache, issued, now, tokenRest>>

\* lines 69-77: the identity endpoint answers, with a new token
FetchNew(h) ==
    /\ handler[h].at = "fetching"
    /\ Len(issued) < MaxTokens
    /\ \E life \in TokenLifetimes :
         /\ issued' = Append(issued, now + life)
         /\ handler' = [handler EXCEPT ![h] =
                          [@ EXCEPT !.at = "store_token",
                                    !.access_token = Len(issued) + 1,
                                    !.expires_at = now + life]]
    /\ UNCHANGED <<token_cache, served, now, tokenRest>>

\* lines 69-77: the identity endpoint answers with a token it has issued
\* before and that has not expired
FetchIssued(h) ==
    /\ handler[h].at = "fetching"
    /\ \E k \in 1..Len(issued) :
         /\ issued[k] > now
         /\ handler' = [handler EXCEPT ![h] =
                          [@ EXCEPT !.at = "store_token",
                                    !.access_token = k,
                                    !.expires_at = issued[k]]]
    /\ UNCHANGED <<token_cache, issued, served, now, tokenRest>>

\* line 78
StoreToken(h) ==
    /\ handler[h].at = "store_token"
    /\ token_cache' = [token_cache EXCEPT !.access_token = handler[h].access_token]
    /\ handler' = [handler EXCEPT ![h].at = "store_expiry"]
    /\ UNCHANGED <<issued, served, now, tokenRest>>

\* line 79
StoreExpiry(h) ==
    /\ handler[h].at = "store_expiry"
    /\ token_cache' = [token_cache EXCEPT !.expires_at = handler[h].expires_at]
    /\ handler' = [handler EXCEPT ![h].at = "return_fetched"]
    /\ UNCHANGED <<issued, served, now, tokenRest>>

\* line 80
ReturnFetched(h) ==
    /\ handler[h].at = "return_fetched"
    /\ served' = [token |-> handler[h].access_token, cached |-> FALSE,
                  checked |-> 0, at |-> now]
    /\ handler' = [handler EXCEPT ![h] = NoRequest]
    /\ UNCHANGED <<token_cache, issued, now, tokenRest>>

\* time passes while every handler is idle or waits for the identity endpoint
TokenTick ==
    /\ \A h \in Threads : handler[h].at \in {"idle", "fetching"}
    /\ now < MaxClock * ClockStep
    /\ now' = now + ClockStep
    /\ UNCHANGED <<token_cache, handler, issued, served, tokenRest>>

TokenInit ==
    /\ FrameStart
    /\ SessStart
    /\ RouterStart
    /\ PureStart
    /\ grafana_endpoint = TRUE
    /\ env = DefaultFlags

TokenNext ==
    \/ TokenTick
    \/ \E h \in Threads :
          \/ ReadCachedToken(h)
          \/ ReadCachedExpiry(h)
          \/ ReturnCached(h)
          \/ FetchNew(h)
          \/ FetchIssued(h)
          \/ StoreToken(h)
          \/ StoreExpiry(h)
          \/ ReturnFetched(h)

SpecToken == TokenInit /\ [][TokenNext]_vars

----------------------------------------------------------------------------
\* The three locks: _backend_lock (line 1353), the _lock of each
\* McpStdioClient (line 60) and _datasource_cache_lock (line 1024).  A thread
\* runs amgmcp_datasource_list ("list"), another tool function ("tool") or the
\* warm-up ("warm"); pc is the `with` statement it stands at ("w_...") or is
\* inside of ("h_..."), th[t].sess the session it is bound to.

lockRest == <<grafana_endpoint, result, nstray, faulted, frameVars, env,
              datasource_cache_value, tool, ret, tried, asked, filterVars,
              datasource_cache_at, now, cache_ttl_raw, looked, sendVars,
              budgetVars, readerVars, tokenVars>>

At(t, where) == [pc EXCEPT ![t] = where]

Bound(t, s) == [th EXCEPT ![t].sess = s]

WithLock(s, holder) == [session EXCEPT ![s].lock = holder]

\* the with-statements of McpStdioClient a thread passes, in order: request
\* initialize, the two notify, request tools/list (lines 324-340), then the
\* request of tools/call
ClientWaits == {"w_init", "w_notify1", "w_notify2", "w_tools_list", "w_request"}

Inside(w) ==
    CASE w = "w_init" -> "h_init"
      [] w = "w_notify1" -> "h_notify1"
      [] w = "w_notify2" -> "h_notify2"
      [] w = "w_tools_list" -> "h_tools_list"
      [] w = "w_request" -> "h_request"

\* a tool function or the warm-up starts
BeginCaller(t) ==
    /\ pc[t] = "idle"
    /\ ncalls < MaxCalls
    /\ ncalls' = ncalls + 1
    /\ \E kind \in {"list", "tool", "warm"} :
         /\ th' = [th EXCEPT ![t] = [NoLocals EXCEPT !.phase = kind]]
         /\ pc' = At(t, IF kind = "list" THEN "w_lookup" ELSE "w_get_backend")
    /\ UNCHANGED <<backend, backend_lock, nsess, session, datasource_cache_lock,
                   lockRest>>

\* line 1039
LookupAcquire(t) ==
    /\ pc[t] = "w_lookup"
    /\ datasource_cache_lock = "free"
    /\ datasource_cache_lock' = t
    /\ pc' = At(t, "h_lookup")
    /\ UNCHANGED <<backend, backend_lock, nsess, session, th, ncalls, lockRest>>

CacheLockAfterLookupKeptOnMiss(t, hit) == IF hit THEN "free" ELSE t

\* lines 1040-1044: each return leaves the with-block
CacheLockAfterLookup(t, hit) == "free"

\* lines 1040-1044, then lines 1392-1393 on a hit, lines 1396-1410 when the
\* Loki list is preferred, line 1415 otherwise
LookupReturn(t) ==
    /\ pc[t] = "h_lookup"
    /\ \E hit \in BOOLEAN :
         /\ datasource_cache_lock' = CacheLockAfterLookup(t, hit)
         /\ IF hit
            THEN pc' = At(t, "idle")
            ELSE \E direct \in BOOLEAN :
                    pc' = At(t, IF direct THEN "w_store" ELSE "w_get_backend")
    /\ UNCHANGED <<backend, backend_lock, nsess, session, th, ncalls, lockRest>>

\* line 1358
GetBackendAcquire(t) ==
    /\ pc[t] = "w_get_backend"
    /\ backend_lock = "free"
    /\ backend_lock' = t
    /\ pc' = At(t, "h_get_backend")
    /\ UNCHANGED <<backend, nsess, session, th, ncalls, datasource_cache_lock,
                   lockRest>>

\* lines 1359-1360: the cached session is returned; the warm-up is done, a
\* tool goes on to tools/call
GetBackendReturn(t) ==
    /\ pc[t] = "h_get_backend"
    /\ backend # 0
    /\ backend_lock' = "free"
    /\ th' = Bound(t, backend)
    /\ pc' = At(t, IF th[t].phase = "warm" THEN "idle" ELSE "w_request")
    /\ UNCHANGED <<backend, nsess, session, ncalls, datasource_cache_lock,
                   lockRest>>

\* line 1366 up to line 319: a new McpStdioClient with a new lock, not yet
\* assigned to _backend
Construct(t) ==
    /\ pc[t] = "h_get_backend"
    /\ backend = 0
    /\ nsess < MaxCalls
    /\ nsess' = nsess + 1
    /\ session' = [session EXCEPT ![nsess + 1] = NewSession]
    /\ th' = Bound(t, nsess + 1)
    /\ pc' = At(t, "w_init")
    /\ UNCHANGED <<backend, backend_lock, ncalls, datasource_cache_lock,
                   lockRest>>

\* `with self._lock` of request (line 166) and of notify (line 99)
ClientAcquire(t) ==
    /\ pc[t] \in ClientWaits
    /\ session[th[t].sess].lock = "free"
    /\ session' = WithLock(th[t].sess, t)
    /\ pc' = At(t, Inside(pc[t]))
    /\ UNCHANGED <<backend, backend_lock, nsess, th, ncalls,
                   datasource_cache_lock, lockRest>>

\* a request of the construction returns its response (lines 324-330,
\* 340-342); after tools/list _backend is assigned and _get_backend returns
ConstructionRequestReturns(t) ==
    /\ pc[t] \in {"h_init", "h_tools_list"}
    /\ session' = WithLock(th[t].sess, "free")
    /\ IF pc[t] = "h_init"
       THEN /\ pc' = At(t, "w_notify1")
            /\ UNCHANGED <<backend, backend_lock>>
       ELSE /\ backend' = th[t].sess
            /\ backend_lock' = "free"
            /\ pc' = At(t, IF th[t].phase = "warm" THEN "idle" ELSE "w_request")
    /\ UNCHANGED <<nsess, th, ncalls, datasource_cache_lock, lockRest>>

\* a request of the construction raises, or its response is an error (lines
\* 329-330, 341-342): both with-blocks are left.  The warm-up logs it (line
\* 1375); in a tool TimeoutError and RuntimeError go to _reset_backend, any
\* other exception returns the failure map.
ConstructionRaises(t) ==
    /\ pc[t] \in {"h_init", "h_tools_list"}
    /\ session' = WithLock(th[t].sess, "free")
    /\ backend_lock' = "free"
    /\ \E exc \in {"TimeoutError", "RuntimeError", "ValueError"} :
         pc' = At(t, IF th[t].phase = "warm" THEN "idle"
                     ELSE IF Resets(exc) THEN "w_reset" ELSE "returned")
    /\ UNCHANGED <<backend, nsess, th, ncalls, datasource_cache_lock, lockRest>>

\* notify returns or raises (lines 98-100, 333-338: the exception is passed
\* over)
NotifyReturns(t) ==
    /\ pc[t] \in {"h_notify1", "h_notify2"}
    /\ session' = WithLock(th[t].sess, "free")
    /\ pc' = At(t, IF pc[t] = "h_notify1" THEN "w_notify2" ELSE "w_tools_list")
    /\ UNCHANGED <<backend, backend_lock, nsess, th, ncalls,
                   datasource_cache_lock, lockRest>>

\* the request of tools/call returns or raises (lines 166-178, 956-981)
RequestLeaves(t) ==
    /\ pc[t] = "h_request"
    /\ session' = WithLock(th[t].sess, "free")
    /\ \E exc \in {"none", "TimeoutError", "RuntimeError", "ValueError"} :
         pc' = At(t, IF Resets(exc) THEN "w_reset" ELSE "returned")
    /\ UNCHANGED <<backend, backend_lock, nsess, th, ncalls,
                   datasource_cache_lock, lockRest>>

\* line 940
ResetAcquire(t) ==
    /\ pc[t] = "w_reset"
    /\ backend_lock = "free"
    /\ backend_lock' = t
    /\ pc' = At(t, "h_reset")
    /\ UNCHANGED <<backend, nsess, session, th, ncalls, datasource_cache_lock,
                   lockRest>>

\* lines 941-947: close() takes no lock
ResetReturn(t) ==
    /\ pc[t] = "h_reset"
    /\ session' = Closed(session, backend)
    /\ backend' = 0
    /\ backend_lock' = "free"
    /\ pc' = At(t, "returned")
    /\ UNCHANGED <<nsess, th, ncalls, datasource_cache_lock, lockRest>>

\* _backend_tool_call_safe has returned: amgmcp_datasource_list stores what it
\* may store (lines 1445-1446), the other tools return
AfterCall(t) ==
    /\ pc[t] = "returned"
    /\ \E store \in BOOLEAN :
         pc' = At(t, IF th[t].phase = "list" /\ store THEN "w_store" ELSE "idle")
    /\ UNCHANGED <<backend, backend_lock, nsess, session, th, ncalls,
                   datasource_cache_lock, lockRest>>

\* line 1048
StoreAcquire(t) ==
    /\ pc[t] = "w_store"
    /\ datasource_cache_lock = "free"
    /\ datasource_cache_lock' = t
    /\ pc' = At(t, "h_store")
    /\ UNCHANGED <<backend, backend_lock, nsess, session, th, ncalls, lockRest>>

\* lines 1049-1051
StoreReturn(t) ==
    /\ pc[t] = "h_store"
    /\ datasource_cache_lock' = "free"
    /\ pc' = At(t, "idle")
    /\ UNCHANGED <<backend, backend_lock, nsess, session, th, ncalls, lockRest>>

LocksInit ==
    /\ FrameStart
    /\ SessStart
    /\ RouterStart
    /\ PureStart
    /\ grafana_endpoint = TRUE
    /\ env = DefaultFlags

LocksNext ==
    \E t \in Threads :
        \/ BeginCaller(t)
        \/ LookupAcquire(t)
        \/ LookupReturn(t)
        \/ GetBackendAcquire(t)
        \/ GetBackendReturn(t)
        \/ Construct(t)
        \/ ClientAcquire(t)
        \/ ConstructionRequestReturns(t)
        \/ ConstructionRaises(t)
        \/ NotifyReturns(t)
        \/ RequestLeaves(t)
        \/ ResetAcquire(t)
        \/ ResetReturn(t)
        \/ AfterCall(t)
        \/ StoreAcquire(t)
        \/ StoreReturn(t)

SpecLocks == LocksInit /\ [][LocksNext]_vars

----------------------------------------------------------------------------
\* One request() on an established session, against the clock (lines 91-96,
\* 102-178, 80-89, 960-967).  Time is in ticks of the deadline; the pipe to
\* the child's stdin has a capacity, and a write to a full pipe waits.

\* the ticks of timeout_s
MaxWait == 3

\* the bytes the pipe to the child's stdin holds
PipeCapacity == 2

\* the bytes of the largest request
MaxRequest == 3

sendRest == <<env, datasource_cache_value, tool, ret, tried, asked, notSend,
              frameVars, sessVars>>

\* request, lines 166-167: the lock is taken and _send begins
BeginRequest ==
    \E n \in 1..MaxRequest :
        /\ rq = "idle"
        /\ rq' = "send"
        /\ unsent' = n
        /\ UNCHANGED <<child, stdin_bytes, inbox, elapsed, read_elapsed,
                       rq_result, sendRest>>

\* _send, lines 94-96: write() puts into the pipe what fits and waits for room
\* for the rest; there is no deadline on it.  Line 169 takes the start time
\* when the last byte is written.
WriteStdin ==
    /\ rq = "send"
    /\ child # "exited"
    /\ stdin_bytes < PipeCapacity
    /\ LET k == Min(unsent, PipeCapacity - stdin_bytes)
       IN  /\ stdin_bytes' = stdin_bytes + k
           /\ unsent' = unsent - k
           /\ rq' = IF unsent = k THEN "loop" ELSE "send"
    /\ elapsed' = 0
    /\ read_elapsed' = 0
    /\ UNCHANGED <<child, inbox, rq_result, sendRest>>

\* _send: the child is gone, write() raises BrokenPipeError
WriteBrokenPipe ==
    /\ rq = "send"
    /\ child = "exited"
    /\ rq' = "done"
    /\ rq_result' = "BrokenPipeError"
    /\ UNCHANGED <<child, stdin_bytes, unsent, inbox, elapsed, read_elapsed,
                   sendRest>>

\* request, lines 170-174: the deadline is tested between two messages, then
\* _read_message starts with the whole timeout_s
LoopTest ==
    /\ rq = "loop"
    /\ IF elapsed > MaxWait
       THEN /\ rq' = "reset"
            /\ rq_result' = "TimeoutError"
            /\ UNCHANGED read_elapsed
       ELSE /\ rq' = "read"
            /\ read_elapsed' = 0
            /\ UNCHANGED rq_result
    /\ UNCHANGED <<child, stdin_bytes, unsent, inbox, elapsed, sendRest>>

\* _read_message, lines 119-124 and 147-152: nothing to read until its own
\* deadline
ReadDeadline ==
    /\ rq = "read"
    /\ inbox = "none"
    /\ child # "exited"
    /\ read_elapsed >= MaxWait
    /\ rq' = "reset"
    /\ rq_result' = "TimeoutError"
    /\ UNCHANGED <<child, stdin_bytes, unsent, inbox, elapsed, read_elapsed,
                   sendRest>>

\* _read_message, lines 126-129: end of stream
ReadClosed ==
    /\ rq = "read"
    /\ inbox = "none"
    /\ child = "exited"
    /\ rq' = "reset"
    /\ rq_result' = "RuntimeError"
    /\ UNCHANGED <<child, stdin_bytes, unsent, inbox, elapsed, read_elapsed,
                   sendRest>>

\* request, lines 174-178: a message is read; the response ends the call, any
\* other message sends the loop round
ReadMessage ==
    /\ rq = "read"
    /\ inbox # "none"
    /\ inbox' = "none"
    /\ IF inbox = "response"
       THEN rq' = "done" /\ rq_result' = "response"
       ELSE rq' = "loop" /\ UNCHANGED rq_result
    /\ UNCHANGED <<child, stdin_bytes, unsent, elapsed, read_elapsed, sendRest>>

\* _reset_backend and close, lines 940-947 and 80-89: stdin is closed and
\* terminate() sends the signal; neither waits for the child
ResetAfterFault ==
    /\ rq = "reset"
    /\ rq' = "done"
    /\ child' = "exited"
    /\ UNCHANGED <<stdin_bytes, unsent, inbox, elapsed, read_elapsed,
                   rq_result, sendRest>>

\* a second passes while select() waits for the child's output (lines 119-124)
Second ==
    /\ rq = "read"
    /\ inbox = "none"
    /\ read_elapsed < MaxWait
    /\ elapsed' = elapsed + 1
    /\ read_elapsed' = read_elapsed + 1
    /\ UNCHANGED <<child, stdin_bytes, unsent, inbox, rq, rq_result, sendRest>>

\* the child reads its stdin
ChildReads ==
    /\ child = "running"
    /\ stdin_bytes > 0
    /\ stdin_bytes' = 0
    /\ UNCHANGED <<child, unsent, inbox, rq, elapsed, read_elapsed, rq_result,
                   sendRest>>

\* the child writes a message: the response once it has read the whole
\* request, a notification at any time
ChildWrites ==
    \E msg \in {"stray", "response"} :
        /\ child = "running"
        /\ inbox = "none"
        /\ rq \in {"send", "loop", "read"}
        /\ msg = "response" => (rq # "send" /\ stdin_bytes = 0)
        /\ inbox' = msg
        /\ UNCHANGED <<child, stdin_bytes, unsent, rq, elapsed, read_elapsed,
                       rq_result, sendRest>>

\* the child stops reading and writing, or exits
ChildStops ==
    \E c \in {"hung", "exited"} :
        /\ child = "running"
        /\ rq # "done"
        /\ child' = c
        /\ UNCHANGED <<stdin_bytes, unsent, inbox, rq, elapsed, read_elapsed,
                       rq_result, sendRest>>

SendInit ==
    /\ FrameStart
    /\ SessStart
    /\ RouterStart
    /\ ReaderStart
    /\ TokenStart
    /\ FilterStart
    /\ CacheStart
    /\ BudgetStart
    /\ grafana_endpoint = TRUE
    /\ env = DefaultFlags
    /\ child \in {"running", "hung"}
    /\ stdin_bytes = 0
    /\ unsent = 0
    /\ inbox = "none"
    /\ rq = "idle"
    /\ elapsed = 0
    /\ read_elapsed = 0
    /\ rq_result = "none"

RequestSteps ==
    \/ BeginRequest
    \/ WriteStdin
    \/ WriteBrokenPipe
    \/ LoopTest
    \/ ReadDeadline
    \/ ReadClosed
    \/ ReadMessage
    \/ ResetAfterFault

SendNext ==
    \/ RequestSteps
    \/ Second
    \/ ChildReads
    \/ ChildWrites
    \/ ChildStops

SpecSend == SendInit /\ [][SendNext]_vars

\* the calling thread is scheduled and the clock runs; nothing is assumed of
\* the child
FairSpecSend == SpecSend /\ WF_vars(RequestSteps) /\ WF_vars(Second)

----------------------------------------------------------------------------
\* The time one tool call may take with the default timeouts: the attempts it
\* makes one after the other, each bounded by its own timeout.

\* line 327
AMG_MCP_INIT_TIMEOUT_S == 20

\* line 340
AMG_MCP_TOOLS_LIST_TIMEOUT_S == 30

\* line 375
AMG_MCP_TOOL_TIMEOUT_S == 90

\* line 1583
AMG_MCP_PROM_QUERY_TIMEOUT_S == 10

\* line 293
PROM_GRAFANA_PROXY_TIMEOUT_S == 10

\* line 387: the token fetch of _grafana_auth_headers
GRAFANA_HTTP_TIMEOUT_S == 20

\* line 229: the token fetch of _amw_promql_query_range
ManagedIdentityTimeout == 20

\* line 259
AMW_PROMQL_TIMEOUT_S == 15

\* lines 374 and 966: the time after which the MCP client gives up
ClientTimeout == 100

Chains == {"backend", "prometheus"}

budgetRest == <<env, datasource_cache_value, tool, ret, tried, asked,
                notBudget, frameVars, sessVars>>

\* the seconds an attempt with timeout T may take when it succeeds
Durations(T) == {0, T \div 2, T - 1}

\* an attempt bounded by T: it succeeds in less than T, or fails at any time up
\* to T
Attempt(T, on_success, on_failure) ==
    \/ \E d \in Durations(T) :
        /\ spent' = spent + d
        /\ stage' = on_success
    \/ \E d \in Durations(T) \cup {T} :
        /\ spent' = spent + d
        /\ stage' = on_failure

\* _get_backend, lines 1356-1367: the session is built when there is none
BackendStage == IF constructed THEN "tools/call" ELSE "initialize"

\* lines 1581-1591: the backend is the last Prometheus tier, when opted in
AfterAmw == IF env.ENABLE_BACKEND_PROMETHEUS THEN BackendStage ELSE "done"

\* lines 1561-1579: AMW direct is tried when its endpoint is configured
AfterProxy == IF env.AMW_QUERY_ENDPOINT THEN "amw_token" ELSE AfterAmw

\* the tool function is entered
BeginToolCall ==
    /\ stage = "start"
    /\ stage' = IF chain = "backend" THEN BackendStage ELSE "proxy_token"
    /\ UNCHANGED <<chain, constructed, spent, budgetRest>>

\* AmgMcpBackend.__init__, lines 324-330
initialize ==
    /\ stage = "initialize"
    /\ Attempt(AMG_MCP_INIT_TIMEOUT_S, "tools/list", "done")
    /\ UNCHANGED <<chain, constructed, budgetRest>>

\* AmgMcpBackend.__init__, lines 340-343
tools_list ==
    /\ stage = "tools/list"
    /\ Attempt(AMG_MCP_TOOLS_LIST_TIMEOUT_S, "tools/call", "done")
    /\ UNCHANGED <<chain, constructed, budgetRest>>

\* tool_call, lines 371-376, and the Prometheus opt-in of lines 1583-1589
tools_call ==
    /\ stage = "tools/call"
    /\ Attempt(IF chain = "backend" THEN AMG_MCP_TOOL_TIMEOUT_S
               ELSE AMG_MCP_PROM_QUERY_TIMEOUT_S, "done", "done")
    /\ UNCHANGED <<chain, constructed, budgetRest>>

\* _grafana_auth_headers, lines 399-400 and 629-630
grafana_token ==
    /\ stage = "proxy_token"
    /\ Attempt(GRAFANA_HTTP_TIMEOUT_S, "proxy", AfterProxy)
    /\ UNCHANGED <<chain, constructed, budgetRest>>

\* _grafana_promql_query_range_via_datasource_proxy, lines 293 and 649
grafana_proxy ==
    /\ stage = "proxy"
    /\ Attempt(PROM_GRAFANA_PROXY_TIMEOUT_S, "done", AfterProxy)
    /\ UNCHANGED <<chain, constructed, budgetRest>>

\* _managed_identity_access_token, line 229
amw_token ==
    /\ stage = "amw_token"
    /\ Attempt(ManagedIdentityTimeout, "amw", AfterAmw)
    /\ UNCHANGED <<chain, constructed, budgetRest>>

\* _amw_promql_query_range, line 259
amw_query ==
    /\ stage = "amw"
    /\ Attempt(AMW_PROMQL_TIMEOUT_S, "done", AfterAmw)
    /\ UNCHANGED <<chain, constructed, budgetRest>>

BudgetInit ==
    /\ FrameStart
    /\ SessStart
    /\ RouterStart
    /\ ReaderStart
    /\ TokenStart
    /\ FilterStart
    /\ CacheStart
    /\ SendStart
    /\ grafana_endpoint = TRUE
    /\ \E amw \in BOOLEAN, opt_in \in BOOLEAN :
        env = [DefaultFlags EXCEPT !.AMW_QUERY_ENDPOINT = amw,
                                   !.ENABLE_BACKEND_PROMETHEUS = opt_in]
    /\ chain \in Chains
    /\ constructed \in BOOLEAN
    /\ stage = "start"
    /\ spent = 0

BudgetNext ==
    \/ BeginToolCall
    \/ initialize
    \/ tools_list
    \/ tools_call
    \/ grafana_token
    \/ grafana_proxy
    \/ amw_token
    \/ amw_query

SpecBudget == BudgetInit /\ [][BudgetNext]_vars

----------------------------------------------------------------------------
\* Tool functions: properties

\* a returned map reports a success
Success(v) == IF "ok" \in DOMAIN v THEN v.ok ELSE "error" \notin DOMAIN v

\* C8: whatever the tiers a tool function consults end in (a launch error, a
\* failed handshake, a timeout, a closed pipe, a framing error of the session,
\* an HTTP failure of a direct tier), the function returns a map: no exception
\* leaves it.
NoExceptionEscapes == tool # "none" => ~IsRaised(ret)

NoExceptionEscapesWitness ==
    /\ tool = "amgmcp_dashboard_search"
    /\ Len(tried) = 2
    /\ tried[1].outcome = "HTTPError"
    /\ tried[2].outcome = "ValueError"
    /\ ~IsRaised(ret)
    /\ ret.ok = FALSE
    /\ ret.backend.errorType = "ValueError"

\* C9: the map a tool function returns has a success flag and a source tag,
\* and when the flag is false an error kind and a message.
ResultMapShape ==
    (tool # "none" /\ ~IsRaised(ret))
        => /\ {"ok", "source"} \subseteq DOMAIN ret
           /\ ret.ok = FALSE => {"errorType", "error"} \subseteq DOMAIN ret

\* C10: when a tier a tool function consulted has succeeded, it is the last
\* tier the function consulted and the function returns a success.
SuccessEndsChain ==
    \A i \in DOMAIN tried :
        Succeeded(tried[i]) => (i = Len(tried) /\ ~IsRaised(ret) /\ Success(ret))

\* the kind of the error a map carries: errorType, type, or the error member
\* of a JSON-RPC response
KindOf(v) ==
    IF IsNone(v) \/ "error" \notin DOMAIN v THEN "none"
    ELSE IF "errorType" \in DOMAIN v THEN v.errorType
    ELSE IF "type" \in DOMAIN v THEN v.type
    ELSE "error"

\* the members of a returned map that hold the error of one tier
ErrorMembers ==
    <<"grafanaProxy", "amw", "warning", "grafanaError", "fallbackError", "backend">>

\* the kinds of all errors (kind and message) a returned map carries: its own
\* and those of its members
ErrorKinds(v) ==
    LET member(i) == IF ErrorMembers[i] \in DOMAIN v
                     THEN KindOf(v[ErrorMembers[i]]) ELSE "none"
    IN  [i \in 0..Len(ErrorMembers) |-> IF i = 0 THEN KindOf(v) ELSE member(i)]

\* how many of the values of f are k
Count(f, k) == Cardinality({i \in DOMAIN f : f[i] = k})

\* the outcomes of the tiers consulted before position n
OutcomesBefore(n) == [i \in 1..(n - 1) |-> tried[i].outcome]

\* the outcomes of a tier that are failures
FailureKinds == (HttpOutcomes \cup BackendOutcomes \cup {"KeyError"}) \ {"ok", "result"}

\* a tool function consulted tiers and none succeeded
ChainExhausted ==
    /\ tool # "none"
    /\ ~IsRaised(ret)
    /\ tried # <<>>
    /\ \A i \in DOMAIN tried : ~Succeeded(tried[i])

\* C11: when every tier a tool function consulted has failed, the map it
\* returns carries the error of each of them, kind and message: as many
\* errors of each kind as tiers failed with that kind.
ExhaustedCarriesEveryError ==
    ChainExhausted
        => \A k \in FailureKinds :
               Count(OutcomesBefore(Len(tried) + 1), k) <= Count(ErrorKinds(ret), k)

ExhaustedCarriesEveryErrorWitness ==
    /\ ChainExhausted
    /\ tool = "amgmcp_query_datasource"
    /\ Len(tried) = 3
    /\ tried[2].outcome = "HTTPError"
    /\ tried[3].outcome = "TimeoutError"
    /\ ret.amw.errorType = "HTTPError"
    /\ ret.backend.errorType = "TimeoutError"

\* C12: when a tool function returns a success produced by the last tier it
\* consulted, the map carries the error of every tier that failed before it.
SuccessCarriesEarlierErrors ==
    (/\ tool # "none"
     /\ ~IsRaised(ret)
     /\ tried # <<>>
     /\ Succeeded(tried[Len(tried)])
     /\ Success(ret))
        => \A k \in FailureKinds :
               Count(OutcomesBefore(Len(tried)), k) <= Count(ErrorKinds(ret), k)

\* the tier of amgmcp_query_datasource that follows a direct tier: the
\* Backend Session after Loki, AMW (if configured) or the backend (if enabled)
\* after the Grafana proxy, the backend (if enabled) after AMW
HasNextTier(name) ==
    CASE name = "loki-direct" -> TRUE
      [] name = "grafana-datasource-proxy" ->
             env.AMW_QUERY_ENDPOINT \/ env.ENABLE_BACKEND_PROMETHEUS
      [] name = "amw-direct" -> env.ENABLE_BACKEND_PROMETHEUS
      [] OTHER -> FALSE

\* C13: when a direct HTTP tier of amgmcp_query_datasource has failed and a
\* next tier exists, that tier is consulted: the failed tier is not the last
\* one.  In particular a failed Loki query is followed by the backend.
HttpFailureAdvances ==
    (tool = "amgmcp_query_datasource" /\ tried # <<>>)
        => LET e == tried[Len(tried)]
           IN  (e.tier # "backend" /\ ~Succeeded(e)) => ~HasNextTier(e.tier)

\* a direct HTTP tier of the call failed and the call never reached
\* _backend_tool_call_safe
DirectFailureOnly(tiers) ==
    /\ \E i \in DOMAIN tiers : ~Succeeded(tiers[i])
    /\ \A i \in DOMAIN tiers : tiers[i].tier # "backend"

\* C14: a tool call in which a direct HTTP tier fails (Grafana proxy, AMW, Loki,
\* render) and which does not consult the session afterwards leaves the shared
\* session as it was: _backend is the same object and no child was closed or
\* launched.
DirectFailureLeavesSession ==
    [][(tool = "none" /\ tool' # "none" /\ DirectFailureOnly(tried'))
          => (backend' = backend /\ session' = session /\ nsess' = nsess)]_vars

DirectFailureLeavesSessionWitness ==
    /\ tool \in {"amgmcp_query_datasource", "amgmcp_image_render"}
    /\ DirectFailureOnly(tried)
    /\ tried[Len(tried)].outcome = "HTTPError"
    /\ backend # 0
    /\ session[backend].alive

\* C16: when the backend call of amgmcp_datasource_list ends in a timeout or
\* in a closed pipe, the session is invalidated and the chain goes on: with
\* LOKI_ENDPOINT or AMW_QUERY_ENDPOINT set the caller receives the synthetic
\* datasource list, otherwise a tagged failure.
DatasourceListFallsBack ==
    (/\ tool = "amgmcp_datasource_list"
     /\ tried # <<>>
     /\ tried[1].tier = "backend"
     /\ tried[1].outcome \in {"TimeoutError", "RuntimeError"})
        => /\ backend = 0
           /\ IF FallbackDatasources # {}
              THEN /\ Success(ret)
                   /\ ret.source = "direct-fallback"
                   /\ ret.datasources = FallbackDatasources
              ELSE /\ ~Success(ret)
                   /\ ret.errorType = tried[1].outcome

\* C20: the arguments a tool call forwards to the child are the caller's
\* arguments restricted to the registry's key set of that tool when the set is
\* not empty, and the caller's arguments as they are when the registry has no
\* entry or an empty one; a key outside the set is dropped and the call is
\* still written.
CapabilityFiltering ==
    ~IsNone(call) =>
        LET keys == IF call.name \in DOMAIN tool_supported_keys
                    THEN tool_supported_keys[call.name] ELSE {}
            kept == IF keys = {} THEN DOMAIN call.arguments
                    ELSE DOMAIN call.arguments \cap keys
        IN  /\ ~IsNone(forwarded)
            /\ forwarded.name = call.name
            /\ DOMAIN forwarded.arguments = kept
            /\ \A k \in kept : forwarded.arguments[k] = call.arguments[k]

CapabilityFilteringWitness ==
    /\ ~IsNone(call)
    /\ call.name = "amgmcp_query_datasource"
    /\ tool_supported_keys[call.name] = {"query"}
    /\ DOMAIN call.arguments = {"query", "limit"}
    /\ DOMAIN forwarded.arguments = {"query"}

\* C21: a value stored at time T is returned unchanged by a lookup at time t
\* when t - T is less than the time to live, and is absent for a lookup when
\* t - T is more than it; with a time to live of zero or less every lookup
\* finds nothing.
CacheTtl ==
    (~IsNone(looked) /\ ~IsNone(looked.stored))
        => /\ (looked.ttl > 0 /\ looked.time - looked.at < looked.ttl)
                => looked.result = looked.stored
           /\ looked.time - looked.at > looked.ttl => IsNone(looked.result)
           /\ looked.ttl <= 0 => IsNone(looked.result)

CacheTtlWitness ==
    /\ ~IsNone(looked)
    /\ ~IsNone(looked.stored)
    /\ looked.ttl = 300
    /\ looked.time - looked.at = 299
    /\ looked.result = looked.stored

\* the name holds the word, in any case
HoldsWord(name, word) == Contains(lower(name), word)

\* C22: a query whose datasource name contains "loki", in any case, never
\* reaches the backend session when LOKI_ENDPOINT is set, and is handed to the
\* backend session when it is not set.
LokiLabelRouting ==
    (tool = "amgmcp_query_datasource"
        /\ HoldsWord(asked, <<"l", "o", "k", "i">>))
        => IF env.LOKI_ENDPOINT
           THEN \A i \in DOMAIN tried : tried[i].tier # "backend"
           ELSE tried # <<>> /\ tried[1].tier = "backend"

\* C25: a datasource name that matches both patterns, Prometheus and Loki, is
\* sent to neither direct HTTP path: the query goes to the backend session.
AmbiguousLabelFallsThrough ==
    (tool = "amgmcp_query_datasource"
        /\ HoldsWord(asked, <<"l", "o", "k", "i">>)
        /\ HoldsWord(asked, <<"p", "r", "o", "m", "e", "t", "h", "e", "u", "s">>))
        => /\ tried # <<>>
           /\ tried[1].tier = "backend"
           /\ ~("source" \in DOMAIN ret /\ ret.source \in {"prometheus", "loki-direct"})

\* C23: against a child that neither reads its input nor writes any output,
\* every request that has started writing ends with a result.
CallTerminates == (rq = "send" /\ child = "hung") ~> (rq = "done")

\* C28: a request with timeout T that fails with a timeout fails no later
\* than T (to the tick) after the request was written, whatever other
\* messages arrived before the deadline.
TimeoutWithinDeadline ==
    rq_result = "TimeoutError" => elapsed <= MaxWait + 1

\* C24: with the default timeouts the attempts of one tool call, session
\* construction included, end before the caller's timeout.
ChainWithinClientTimeout == stage = "done" => spent < ClientTimeout

\* C29: on every session's stdin the initialize request comes first, the
\* notifications are written only once it is answered and before the
\* tools/list request, and a tools/call request is written only after
\* tools/list is answered; construction goes on to tools/list whether the
\* notifications could be written or not.
HandshakeOrder ==
    /\ [](\A s \in Sessions :
            LET w == session[s].wire
            IN  w # <<>> =>
                  /\ w[1] = 1
                  /\ \A p \in DOMAIN w :
                       /\ w[p] = 0 => (p \in {2, 3} /\ 1 \in session[s].answered)
                       /\ w[p] = 2 => (/\ 1 \in session[s].answered
                                      /\ SubSeq(w, 1, p - 1) \in {<<1>>, <<1, 0, 0>>})
                       /\ w[p] > 2 => \E q \in 1..(p - 1) :
                                         w[q] = 2 /\ q \in session[s].answered)
    /\ [][\A t \in Threads :
            (th[t].phase = "init" /\ th'[t].phase = "list")
                => pc'[t] = "alloc1" /\ backend_lock' = t]_vars

HandshakeOrderWitness ==
    \E s \in Sessions :
        /\ Len(session[s].wire) = 5
        /\ session[s].wire = <<1, 0, 0, 2, 3>>
        /\ session[s].answered = {1, 4}

\* a thread leaves the handler of _backend_tool_call_safe: _reset_backend has
\* run
ResetStep(t) == pc[t] = "handler" /\ pc'[t] = "idle"

\* C30: _backend changes only while _backend_lock is held.  _reset_backend
\* takes the lock, closes the session (stdin closed, child told to terminate)
\* and clears the reference in that one critical section, and changes nothing
\* when there is no session; only _get_backend, holding the lock, sets the
\* reference.
ReferenceChangesUnderLock ==
    /\ [][\A t \in Threads :
            ResetStep(t) =>
                /\ backend_lock = "free"
                /\ backend_lock' = "free"
                /\ backend' = 0
                /\ \A s \in Sessions :
                     IF s = backend
                     THEN session'[s].stdin_closed /\ ~session'[s].alive
                     ELSE /\ session'[s].stdin_closed = session[s].stdin_closed
                          /\ session'[s].alive = session[s].alive]_vars
    /\ [][backend' # backend =>
            \/ backend' = 0 /\ \E t \in Threads : ResetStep(t)
            \/ /\ backend = 0
               /\ \E t \in Threads :
                    /\ backend_lock = t
                    /\ th[t].sess = backend'
                    /\ th[t].phase = "list"
                    /\ backend_lock' = "free"]_vars

ReferenceChangesUnderLockWitness ==
    /\ backend = 0
    /\ \E s \in Sessions :
        /\ <<s, "Timeout">> \in faulted
        /\ session[s].stdin_closed
        /\ ~session[s].alive

\* a map that reports a failure
IsFailureMap(v) ==
    \/ "error" \in DOMAIN v
    \/ "ok" \in DOMAIN v /\ v.ok = FALSE
    \/ "errorType" \in DOMAIN v

\* C31: amgmcp_datasource_list with a stored list younger than its time to
\* live returns that list and consults neither a direct tier nor the backend
\* session, and what is stored is never the map of a failure.
CachedListServedAlone ==
    /\ []((tool = "amgmcp_datasource_list"
            /\ ~IsNone(looked.stored)
            /\ looked.ttl > 0
            /\ looked.time - looked.at < looked.ttl)
          => (ret = looked.stored /\ tried = <<Tier("cache", "ok")>>))
    /\ [](~IsNone(datasource_cache_value) => ~IsFailureMap(datasource_cache_value))
    /\ [][(tool = "none" /\ tool' = "amgmcp_datasource_list"
            /\ tried'[1].tier = "cache")
          => UNCHANGED <<backend, nsess, session, datasource_cache_value,
                         datasource_cache_at>>]_vars

CachedListServedAloneWitness ==
    /\ tool = "amgmcp_datasource_list"
    /\ ~IsNone(looked.stored)
    /\ looked.stored = [jsonrpc |-> "2.0", id |-> "id", result |-> "payload"]
    /\ looked.time - looked.at = DefaultTtl - 1
    /\ ret = looked.stored
    /\ tried = <<Tier("cache", "ok")>>

\* C32: a query whose datasource name looks like Prometheus reaches the
\* backend session only when ENABLE_BACKEND_PROMETHEUS is set, and then only
\* after the Grafana datasource proxy and AMW direct have each failed or were
\* not configured; a call that does not reach it leaves the session alone.
PrometheusBackendIsOptIn ==
    /\ []((tool = "amgmcp_query_datasource" /\ LooksLikePrometheus[asked])
          => \A i \in DOMAIN tried :
                tried[i].tier = "backend"
                    => /\ env.ENABLE_BACKEND_PROMETHEUS
                       /\ i = Len(tried)
                       /\ \A j \in 1..(i - 1) :
                            /\ tried[j].tier \in {"grafana-datasource-proxy",
                                                  "amw-direct"}
                            /\ ~Succeeded(tried[j])
                       /\ env.AMW_QUERY_ENDPOINT
                            => \E j \in 1..(i - 1) : tried[j].tier = "amw-direct")
    /\ [][(tool = "none" /\ tool' = "amgmcp_query_datasource"
            /\ LooksLikePrometheus[asked']
            /\ \A i \in DOMAIN tried' : tried'[i].tier # "backend")
          => UNCHANGED <<backend, nsess, session>>]_vars

PrometheusBackendIsOptInWitness ==
    /\ tool = "amgmcp_query_datasource"
    /\ LooksLikePrometheus[asked]
    /\ Len(tried) = 3
    /\ tried[1] = Tier("grafana-datasource-proxy", "HTTPError")
    /\ tried[2] = Tier("amw-direct", "HTTPError")
    /\ tried[3] = Tier("backend", "result")

\* C33: the reset that follows a fault of a call on session X closes no other
\* session: a child that a reset step stops is the child of the session the
\* faulting thread was bound to, and _backend is cleared only when it is that
\* session.
ResetClosesOwnSession ==
    [][\A t \in Threads :
         (pc[t] = "handler" /\ pc'[t] = "idle")
            => /\ \A s \in Sessions :
                    (session[s].alive /\ ~session'[s].alive) => s = th[t].sess
               /\ backend' # backend => backend = th[t].sess]_vars

\* C34: every child that was launched and has not been told to stop belongs
\* to the cached session or to a call that is still building or using its
\* session or has its fault handler to run, so once the calls have ended at
\* most one child runs that nothing is tearing down.
NoOrphanChild ==
    \A s \in Sessions :
        (s <= nsess /\ session[s].alive /\ ~session[s].stdin_closed)
            => \/ s = backend
               \/ \E t \in Threads : pc[t] # "idle" /\ th[t].sess = s

\* C35: while a session is cached and its request lock is free, no byte taken
\* from the child's output is missing: each has been returned inside a complete
\* message or is kept in self._recv_buf, so the request that takes the lock
\* next starts to parse at the first byte of a message.
ReceivePositionAtBoundary ==
    /\ []((backend = 1 /\ request_lock_free) => ~lost)
    /\ [][\A t \in Threads :
            (pc[t] = "idle" /\ pc'[t] = "request")
               => (~lost /\ recv_buf \o pipe \in Framings(Drop(sent, Len(got))))]_vars

\* the holder of the lock thread t stands in front of, "free" when t stands in
\* front of no lock or the lock is free
WaitsOn(t) ==
    CASE pc[t] \in {"w_lookup", "w_store"} -> datasource_cache_lock
      [] pc[t] \in {"w_get_backend", "w_reset"} -> backend_lock
      [] pc[t] \in ClientWaits -> session[th[t].sess].lock
      [] OTHER -> "free"

\* C36: the three locks never deadlock.  A caller that waits for a lock waits
\* for a thread that itself waits for no lock, so whenever callers are running
\* one of them can go on; and the thread that holds _datasource_cache_lock
\* holds neither _backend_lock nor the lock of a session.
LocksNeverDeadlock ==
    /\ \A t \in Threads : WaitsOn(t) # "free" => WaitsOn(WaitsOn(t)) = "free"
    /\ (\E t \in Threads : pc[t] # "idle")
          => \E t \in Threads : pc[t] # "idle" /\ WaitsOn(t) = "free"
    /\ \A t \in Threads :
          datasource_cache_lock = t
             => /\ backend_lock # t
                /\ \A s \in Sessions : session[s].lock # t

\* one caller is inside the construction with _backend_lock and the lock of
\* the new session, the other waits for _backend_lock
LocksNeverDeadlockWitness ==
    \E t \in Threads, u \in Threads :
        /\ backend_lock = t
        /\ th[t].sess \in Sessions
        /\ session[th[t].sess].lock = t
        /\ pc[u] = "w_reset"
        /\ WaitsOn(u) = t

\* C37: on every byte stream the two readers agree.  Called again and again
\* with no deadline passing, the reader of mcp_query_runner and the reader of
\* the proxy end their n-th call the same way: with the same message, or with
\* the same kind of failure.
ReadersAgree ==
    \A i \in 1..Len(proxy_out) :
        i <= Len(runner_out) => proxy_out[i] = runner_out[i]

\* C38: a token returned from the cache was compared with its own expiry and
\* was good for more than 120 seconds: the expiry the handler checked is more
\* than 120 seconds after the check, and it is the expiry of the token the
\* handler returns, whatever other handlers do in between.
CachedTokenIsFresh ==
    (~IsNone(served) /\ served.cached)
        => /\ served.checked > served.at + SafetyMargin
           /\ served.checked = issued[served.token]
           /\ issued[served.token] > served.at + SafetyMargin

====
